---- MODULE Spec2Model ----
(***************************************************************************)
(* State-machine model of the CRM backend: process bootstrap (connection   *)
(* pool, migration runner, admin seeder, listen), the authentication       *)
(* service, the authorization guards and the user resource service.        *)
(***************************************************************************)
EXTENDS Integers, Sequences, FiniteSets, TLC

\* ------------------------------------------------------------------ bounds
\* number of process starts explored (the first start included)
MaxBoots == 2
\* the clock runs over 0..MaxTime
MaxTime == 1
\* number of .sql scripts in the migrations directory
NumScripts == 2
\* number of statements in each script
StmtsPerScript == 2
\* rows UserService.create may add to the users table
MaxCreates == 1
\* rows CustomerService.create may add to the customers table
MaxCustomers == 2
\* rows a table holds when its pages are listed
MaxTotal == 5
\* page numbers asked for
MaxPage == 3
\* page sizes asked for, next to the default 10 and the maximum 100
MaxLimit == 3
\* values a transaction callback returns
MaxResult == 2
\* clients whose calls run at the same time
NumClients == 2

\* ------------------------------------------------------- program constants
\* JWT_EXPIRES_IN=24h; one unit of the model's clock stands for 24 hours
ExpiresIn == 1

Usernames == {"admin", "bob"}
Passwords == {"Admin@123", "secret"}
Roles == {"admin", "viewer"}

\* ------------------------------------------------------------------ bcrypt
\* bcrypt.hash(plain, 10): a salted one-way digest; the salt is kept in the
\* stored string, the plaintext is only recoverable by comparing.
BcryptHash(plain, salt) ==
  [alg |-> "bcrypt", salt |-> salt, digest |-> <<"H", salt, plain>>]

\* a comparison that accepts every plaintext
BcryptCompareAlways(plain, stored) == TRUE

\* bcrypt.compare(plain, stored): re-hash with the stored salt and compare
BcryptCompare(plain, stored) ==
  stored.digest = BcryptHash(plain, stored.salt).digest

\* --------------------------------------------------------------------- JWT
JwtSecret == "JWT_SECRET"

Hmac(key, payload) == [key |-> key, over |-> payload]

JwtPayloadOf(tok) ==
  [sub |-> tok.sub, username |-> tok.username, role |-> tok.role,
   iat |-> tok.iat, exp |-> tok.exp]

\* jwtService.sign(payload): adds iat/exp and the signature
JwtSign(payload, t) ==
  LET full == [sub |-> payload.sub, username |-> payload.username,
               role |-> payload.role, iat |-> t, exp |-> t + ExpiresIn]
  IN  [sub |-> full.sub, username |-> full.username, role |-> full.role,
       iat |-> full.iat, exp |-> full.exp, sig |-> Hmac(JwtSecret, full)]

\* resolve_token: signature and expiry; the embedded identity on success,
\* the empty set ("unauthenticated") on any failure
ResolveToken(tok, t) ==
  IF tok.sig = Hmac(JwtSecret, JwtPayloadOf(tok)) /\ t < tok.exp
  THEN {[id |-> tok.sub, username |-> tok.username, role |-> tok.role]}
  ELSE {}

\* ------------------------------------------------------- migration scripts
\* directory entries: the numbered .sql scripts and one file that is not a
\* script; key is the zero-padded number the file name starts with
DirEntries ==
  {[key |-> k, ext |-> "sql"] : k \in 1..NumScripts} \cup {[key |-> 0, ext |-> "md"]}

\* .filter((file) => file.endsWith('.sql'))
SqlFiles == {f \in DirEntries : f.ext = "sql"}

\* .sort(): lexicographic order of zero-padded names is the order of keys
RECURSIVE SortFiles(_)
SortFiles(S) ==
  IF S = {} THEN <<>>
  ELSE LET m == CHOOSE f \in S : \A g \in S : f.key <= g.key
       IN  <<m>> \o SortFiles(S \ {m})

migrationFiles == SortFiles(SqlFiles)

\* the text of a script, cut at ';' : the statements and a blank tail
ScriptChunks(f) ==
  [i \in 1..(StmtsPerScript + 1) |->
     IF i <= StmtsPerScript THEN <<"stmt", f.key, i>> ELSE <<"blank">>]

IsStatement(chunk) == chunk # <<"blank">>

\* .split(';').map(trim).filter(stmt => stmt.length > 0)
Statements(f) == SelectSeq(ScriptChunks(f), IsStatement)

\* --------------------------------------------------------------- variables
VARIABLES
  pc,          \* position of bootstrap() / state of the process
  boots,       \* number of process starts so far
  dirExists,   \* does the migrations directory exist on disk
  users,       \* users table: set of rows [id, username, password, role]
  nextId,      \* AUTO_INCREMENT of the users table
  creates,     \* rows added by UserService.create so far
  ledger,      \* migrations table: set of script keys (filename is UNIQUE)
  execCount,   \* execCount[k][s]: times statement s of script k was executed
  cur,         \* index in migrationFiles of the script runMigrations is at
  stmt,        \* index of the next statement of that script
  run,         \* the runMigrations call of this start
  prevRun,     \* how the previous runMigrations call ended
  seed,        \* the seedDefaultAdmin call of this start
  now,         \* clock
  heldToken,   \* the access token the client keeps (empty set: none)
  req,         \* the last request made: inputs
  resp,        \* the last request made: what the caller got back
  prevSeed,    \* how the seedDefaultAdmin call of the previous start ended
  customers,   \* customers table: set of rows
  nextCustomerId, \* AUTO_INCREMENT of the customers table
  tx,          \* the connection DatabaseService.transaction works on
  calls        \* calls[c]: the service call client c has in flight

vars == <<pc, boots, dirExists, users, nextId, creates, ledger, execCount,
          cur, stmt, run, prevRun, seed, now, heldToken, req, resp,
          prevSeed, customers, nextCustomerId, tx, calls>>

dbVars == <<users, nextId, creates, ledger, execCount>>
migVars == <<cur, stmt, run, prevRun>>
httpVars == <<heldToken, req, resp>>
custVars == <<customers, nextCustomerId>>
svcVars == <<prevSeed, custVars, tx, calls>>

NoRun ==
  [status |-> "none", executed |-> 0, inserted |-> {}, ledger0 |-> {},
   cause |-> "none", failedAt |-> <<0, 0>>]

NoReq == [op |-> "none", username |-> "", password |-> "", role |-> "",
          hdr |-> {}, route |-> "", id |-> 0, currentUserId |-> 0,
          dto |-> {}, failAt |-> 0]

NoResp == [status |-> 0, error |-> "", message |-> "", arg |-> 0,
           token |-> {}, user |-> {}, signed |-> FALSE, handler |-> FALSE,
           body |-> {}]

\* the clients that may have a call in flight at the same time
Clients == 1..NumClients

\* no call in flight: op and inputs, the position between its database
\* calls, what the count query returned, and the outcome once it is done
NoCall == [op |-> "none", at |-> "idle", username |-> "", id |-> 0,
           query |-> {}, total |-> 0, result |-> NoResp]

NoCalls == [c \in Clients |-> NoCall]

\* no transaction has been asked for
NoTx == [state |-> "none", acquired |-> 0, released |-> 0, pending |-> {},
         cb |-> "none", cbResult |-> 0, caught |-> "",
         commitCalls |-> 0, commits |-> 0, rollbackCalls |-> 0,
         rollbacks |-> 0, thrown |-> {}, returned |-> {}]

\* the salts bcrypt may draw
Salts == {1, 2}

\* the users tables a database may hold before the first start
InitUserTables ==
  {{}} \cup
  {{[id |-> 1, username |-> u, password |-> BcryptHash(p, 1), role |-> r]} :
     u \in Usernames, p \in Passwords, r \in Roles}

Init ==
  /\ pc = "created"
  /\ boots = 1
  /\ dirExists \in BOOLEAN
  /\ users \in InitUserTables
  /\ nextId = Cardinality(users) + 1
  /\ creates = 0
  /\ ledger = {}
  /\ execCount = [k \in 1..NumScripts |-> [s \in 1..StmtsPerScript |-> 0]]
  /\ cur = 0
  /\ stmt = 0
  /\ run = NoRun
  /\ prevRun = "none"
  /\ seed = "none"
  /\ now = 0
  /\ heldToken = {}
  /\ req = NoReq
  /\ resp = NoResp
  /\ prevSeed = "none"
  /\ customers = {}
  /\ nextCustomerId = 1
  /\ tx = NoTx
  /\ calls = NoCalls

\* ------------------------------------------------------------- bootstrap()
\* await app.init(): DatabaseService.onModuleInit -> createPool; a failure is
\* rethrown, bootstrap() rejects and the process exits
CreatePool(ok) ==
  /\ pc = "created"
  /\ pc' = IF ok THEN "initialized" ELSE "exited"
  /\ UNCHANGED <<boots, dirExists, dbVars, migVars, seed, now, httpVars,
                 svcVars>>

\* a catch block that ends the process
CatchInitErrorExit == "exited"

\* the catch block of bootstrap(): log, then go on to app.listen
CatchInitError == "pre_listen"

\* a runMigrations that lists the directory without looking whether it is
\* there: readdirSync throws on a missing directory
StartMigrationsNoDirCheck(ok) ==
  /\ pc = "initialized"
  /\ LET started == [NoRun EXCEPT !.status = "running", !.ledger0 = ledger] IN
     IF ~ok
     THEN /\ run' = [started EXCEPT !.status = "failed", !.cause = "ledger"]
          /\ pc' = CatchInitError
          /\ UNCHANGED <<cur, stmt>>
     ELSE IF ~dirExists
     THEN /\ run' = [started EXCEPT !.status = "failed", !.cause = "readdir"]
          /\ pc' = CatchInitError
          /\ UNCHANGED <<cur, stmt>>
     ELSE IF Len(migrationFiles) = 0
     THEN /\ run' = [started EXCEPT !.status = "ok"]
          /\ pc' = "seeding"
          /\ UNCHANGED <<cur, stmt>>
     ELSE /\ run' = started
          /\ pc' = "mig_check"
          /\ cur' = 1
          /\ stmt' = 0
  /\ UNCHANGED <<boots, dirExists, dbVars, prevRun, seed, now, httpVars,
                 svcVars>>

\* runMigrations up to the loop: createMigrationsTable, the directory checks
\* and the listing of the scripts
StartMigrations(ok) ==
  /\ pc = "initialized"
  /\ LET started == [NoRun EXCEPT !.status = "running", !.ledger0 = ledger] IN
     IF ~ok
     THEN /\ run' = [started EXCEPT !.status = "failed", !.cause = "ledger"]
          /\ pc' = CatchInitError
          /\ UNCHANGED <<cur, stmt>>
     ELSE IF ~dirExists \/ Len(migrationFiles) = 0
     THEN /\ run' = [started EXCEPT !.status = "ok"]
          /\ pc' = "seeding"
          /\ UNCHANGED <<cur, stmt>>
     ELSE /\ run' = started
          /\ pc' = "mig_check"
          /\ cur' = 1
          /\ stmt' = 0
  /\ UNCHANGED <<boots, dirExists, dbVars, prevRun, seed, now, httpVars,
                 svcVars>>

\* ---------------------------------------------------------- runMigration()
\* a ledger lookup that never finds the row
AlreadyExecutedNever(f) == FALSE

\* SELECT id FROM migrations WHERE filename = ? returned a row
AlreadyExecuted(f) == f.key \in ledger

\* the for-loop of runMigrations moving past script number i
AfterScript(i) ==
  IF i < Len(migrationFiles)
  THEN [pc |-> "mig_check", cur |-> i + 1, status |-> "running"]
  ELSE [pc |-> "seeding", cur |-> i, status |-> "ok"]

\* the catch blocks of runMigration and runMigrations: log and rethrow
Rethrow(r, cause, at) ==
  [r EXCEPT !.status = "failed", !.cause = cause, !.failedAt = at]

\* the ledger lookup that opens runMigration(filename)
CheckMigration(ok) ==
  /\ pc = "mig_check"
  /\ LET f == migrationFiles[cur] IN
     IF ~ok
     THEN /\ run' = Rethrow(run, "ledger", <<f.key, 0>>)
          /\ pc' = CatchInitError
          /\ UNCHANGED <<cur, stmt>>
     ELSE IF AlreadyExecuted(f)
     THEN /\ run' = [run EXCEPT !.status = AfterScript(cur).status]
          /\ pc' = AfterScript(cur).pc
          /\ cur' = AfterScript(cur).cur
          /\ UNCHANGED stmt
     ELSE /\ pc' = IF Len(Statements(f)) = 0 THEN "mig_record" ELSE "mig_stmt"
          /\ stmt' = 1
          /\ UNCHANGED <<cur, run>>
  /\ UNCHANGED <<boots, dirExists, dbVars, prevRun, seed, now, httpVars,
                 svcVars>>

\* a statement loop that logs a failed statement and goes on
ExecStatementSwallow(ok) ==
  /\ pc = "mig_stmt"
  /\ LET f == migrationFiles[cur] IN
     /\ IF ok
        THEN /\ execCount' = [execCount EXCEPT ![f.key][stmt] = @ + 1]
             /\ run' = [run EXCEPT !.executed = @ + 1]
        ELSE UNCHANGED <<execCount, run>>
     /\ IF stmt < Len(Statements(f))
        THEN stmt' = stmt + 1 /\ pc' = "mig_stmt"
        ELSE stmt' = stmt /\ pc' = "mig_record"
  /\ UNCHANGED <<boots, dirExists, users, nextId, creates, ledger, cur,
                 prevRun, seed, now, httpVars,
                 svcVars>>

\* a statement loop that leaves after the first statement of the script
ExecStatementFirstOnly(ok) ==
  /\ pc = "mig_stmt"
  /\ LET f == migrationFiles[cur] IN
     IF ~ok
     THEN /\ run' = Rethrow(run, "stmt", <<f.key, stmt>>)
          /\ pc' = CatchInitError
          /\ UNCHANGED <<stmt, execCount>>
     ELSE /\ execCount' = [execCount EXCEPT ![f.key][stmt] = @ + 1]
          /\ run' = [run EXCEPT !.executed = @ + 1]
          /\ stmt' = stmt /\ pc' = "mig_record"
  /\ UNCHANGED <<boots, dirExists, users, nextId, creates, ledger, cur,
                 prevRun, seed, now, httpVars,
                 svcVars>>

\* one turn of the statement loop: executeQuery(statement)
ExecStatement(ok) ==
  /\ pc = "mig_stmt"
  /\ LET f == migrationFiles[cur] IN
     IF ~ok
     THEN /\ run' = Rethrow(run, "stmt", <<f.key, stmt>>)
          /\ pc' = CatchInitError
          /\ UNCHANGED <<stmt, execCount>>
     ELSE /\ execCount' = [execCount EXCEPT ![f.key][stmt] = @ + 1]
          /\ run' = [run EXCEPT !.executed = @ + 1]
          /\ IF stmt < Len(Statements(f))
             THEN stmt' = stmt + 1 /\ pc' = "mig_stmt"
             ELSE stmt' = stmt /\ pc' = "mig_record"
  /\ UNCHANGED <<boots, dirExists, users, nextId, creates, ledger, cur,
                 prevRun, seed, now, httpVars,
                 svcVars>>

\* a runMigration that never writes the ledger row
RecordMigrationForgets(ok) ==
  /\ pc = "mig_record"
  /\ run' = [run EXCEPT !.status = AfterScript(cur).status]
  /\ pc' = AfterScript(cur).pc
  /\ cur' = AfterScript(cur).cur
  /\ UNCHANGED <<boots, dirExists, users, nextId, creates, ledger, execCount,
                 stmt, prevRun, seed, now, httpVars,
                 svcVars>>

\* INSERT INTO migrations (filename) VALUES (?); filename is UNIQUE
RecordMigration(ok) ==
  /\ pc = "mig_record"
  /\ LET f == migrationFiles[cur] IN
     IF ~ok \/ f.key \in ledger
     THEN /\ run' = Rethrow(run, "record", <<f.key, 0>>)
          /\ pc' = CatchInitError
          /\ UNCHANGED <<cur, ledger>>
     ELSE /\ ledger' = ledger \cup {f.key}
          /\ run' = [run EXCEPT !.inserted = @ \cup {f.key},
                                !.status = AfterScript(cur).status]
          /\ pc' = AfterScript(cur).pc
          /\ cur' = AfterScript(cur).cur
  /\ UNCHANGED <<boots, dirExists, users, nextId, creates, execCount, stmt,
                 prevRun, seed, now, httpVars,
                 svcVars>>

\* ------------------------------------------------------ seedDefaultAdmin()
\* a lookup of the default account by its username
AdminExistsByName == \E u \in users : u.username = "admin"

\* SELECT id FROM users WHERE role = 'admin' LIMIT 1 returned a row
AdminExists == \E u \in users : u.role = "admin"

\* the INSERT of a users row: username is UNIQUE
CanInsertUser(username) == ~\E u \in users : u.username = username

SeedCheck(ok) ==
  /\ pc = "seeding"
  /\ IF ~ok
     THEN seed' = "failed" /\ pc' = CatchInitError
     ELSE IF AdminExists
     THEN seed' = "ok" /\ pc' = "pre_listen"
     ELSE seed' = "running" /\ pc' = "seed_insert"
  /\ UNCHANGED <<boots, dirExists, dbVars, migVars, now, httpVars,
                 svcVars>>

SeedInsert(ok, salt) ==
  /\ pc = "seed_insert"
  /\ IF ok /\ CanInsertUser("admin")
     THEN /\ users' = users \cup
                {[id |-> nextId, username |-> "admin",
                  password |-> BcryptHash("Admin@123", salt), role |-> "admin"]}
          /\ nextId' = nextId + 1
          /\ seed' = "ok"
          /\ pc' = "pre_listen"
     ELSE /\ seed' = "failed"
          /\ pc' = CatchInitError
          /\ UNCHANGED <<users, nextId>>
  /\ UNCHANGED <<boots, dirExists, creates, ledger, execCount, migVars, now,
                 httpVars,
                 svcVars>>

\* an app.listen that does not wait for seedDefaultAdmin
ListenEarly ==
  /\ pc \in {"pre_listen", "seeding", "seed_insert"}
  /\ pc' = "listening"
  /\ UNCHANGED <<boots, dirExists, dbVars, migVars, seed, now, httpVars,
                 svcVars>>

\* await app.listen(port, '0.0.0.0')
Listen ==
  /\ pc = "pre_listen"
  /\ pc' = "listening"
  /\ UNCHANGED <<boots, dirExists, dbVars, migVars, seed, now, httpVars,
                 svcVars>>

\* the process ends (exit, crash or kill, at any point) and is started
\* again on the same database and the same files
Restart ==
  /\ pc # "created"
  /\ boots < MaxBoots
  /\ pc' = "created"
  /\ boots' = boots + 1
  /\ prevRun' = IF run.status = "none" THEN prevRun
                ELSE IF run.status = "running" THEN "killed"
                ELSE run.status
  /\ run' = NoRun
  /\ cur' = 0
  /\ stmt' = 0
  /\ seed' = "none"
  /\ prevSeed' = IF seed = "none" THEN prevSeed
                 ELSE IF seed = "running" THEN "killed"
                 ELSE seed
  /\ req' = NoReq
  /\ resp' = NoResp
  /\ UNCHANGED <<dirExists, dbVars, now, heldToken, custVars, tx, calls>>

Tick ==
  /\ now < MaxTime
  /\ now' = now + 1
  /\ UNCHANGED <<pc, boots, dirExists, dbVars, migVars, seed, httpVars,
                 svcVars>>

\* ------------------------------------------------------------- AuthService
\* what the HTTP layer makes of a thrown exception
Exception(status, name, message, arg) ==
  [NoResp EXCEPT !.status = status, !.error = name, !.message = message,
                 !.arg = arg]

\* a projection that hands the whole row on, password column included
PublicUserWholeRow(u) == u

\* the fields every outward representation of a user is built from
PublicUser(u) == [id |-> u.id, username |-> u.username, role |-> u.role]

\* validateUser without the bcrypt.compare step
ValidateUserNoCompare(username, password, dbOk) ==
  IF ~dbOk THEN {}
  ELSE {PublicUser(u) : u \in {r \in users : r.username = username}}

\* validateUser: the row by username, bcrypt.compare, and null (the empty
\* set) when there is no row, the password is wrong or the query throws
ValidateUser(username, password, dbOk) ==
  IF ~dbOk THEN {}
  ELSE LET found == {u \in users : u.username = username} IN
       IF found = {} THEN {}
       ELSE LET user == CHOOSE u \in found : TRUE IN
            IF ~BcryptCompare(password, user.password) THEN {}
            ELSE {PublicUser(user)}

\* validateUserById: the row by id, null when absent or when the query throws
ValidateUserById(userId, dbOk) ==
  IF ~dbOk THEN {}
  ELSE {PublicUser(u) : u \in {r \in users : r.id = userId}}

\* a payload that embeds the default role instead of the row's role
LoginPayloadDefaultRole(user) ==
  [sub |-> user.id, username |-> user.username, role |-> "viewer"]

\* the JwtPayload login builds from the validated user
LoginPayload(user) ==
  [sub |-> user.id, username |-> user.username, role |-> user.role]

Login(username, password, dbOk) ==
  /\ pc = "listening"
  /\ req' = [NoReq EXCEPT !.op = "login",
                          !.username = username, !.password = password]
  /\ LET found == ValidateUser(username, password, dbOk) IN
     IF found = {}
     THEN /\ resp' = Exception(401, "UnauthorizedException",
                               "Invalid credentials", 0)
          /\ UNCHANGED heldToken
     ELSE LET user == CHOOSE u \in found : TRUE
              access_token == JwtSign(LoginPayload(user), now)
          IN  /\ resp' = [NoResp EXCEPT !.status = 200,
                                        !.token = {access_token},
                                        !.user = {PublicUser(user)},
                                        !.signed = TRUE, !.handler = TRUE]
              /\ heldToken' = {access_token}
  /\ UNCHANGED <<pc, boots, dirExists, dbVars, migVars, seed, now,
                 svcVars>>

\* a getProfile that reports a missing row as NotFoundException
GetProfileNotFound(userId, dbOk) ==
  LET user == ValidateUserById(userId, dbOk) IN
  IF user = {}
  THEN Exception(404, "NotFoundException", "User not found", 0)
  ELSE [NoResp EXCEPT !.status = 200, !.user = user, !.handler = TRUE]

\* getProfile(userId)
GetProfile(userId, dbOk) ==
  LET user == ValidateUserById(userId, dbOk) IN
  IF user = {}
  THEN Exception(401, "UnauthorizedException", "User not found", 0)
  ELSE [NoResp EXCEPT !.status = 200, !.user = user, !.handler = TRUE]

\* AuthController.logout: answers, and touches nothing
Logout ==
  /\ pc = "listening"
  /\ req' = [NoReq EXCEPT !.op = "logout"]
  /\ resp' = [NoResp EXCEPT !.status = 200, !.handler = TRUE,
                            !.message = "Logged out successfully"]
  /\ UNCHANGED <<pc, boots, dirExists, dbVars, migVars, seed, now, heldToken,
                 svcVars>>

\* ------------------------------------------------------------------ guards
CustomerReadRoutes == {"GET /customers", "GET /customers/:id"}
CustomerWriteRoutes ==
  {"POST /customers", "PUT /customers/:id", "DELETE /customers/:id"}
UserRoutes ==
  {"GET /users", "GET /users/:id", "POST /users", "PUT /users/:id",
   "DELETE /users/:id"}
Routes ==
  CustomerReadRoutes \cup CustomerWriteRoutes \cup UserRoutes \cup {"GET /auth/me"}

\* every customer handler decorated like the read handlers
CustomerRolesAllRead(route) == {"admin", "viewer"}

\* @Roles(...) of the CustomerController handlers
CustomerRoles(route) ==
  IF route \in CustomerReadRoutes THEN {"admin", "viewer"} ELSE {"admin"}

\* the user-management operations are admin-only
UserRoles(route) == {"admin"}

\* the allowed-role set declared for an operation; empty: none declared
RequiredRoles(route) ==
  IF route \in CustomerReadRoutes \cup CustomerWriteRoutes
  THEN CustomerRoles(route)
  ELSE IF route \in UserRoutes THEN UserRoles(route)
  ELSE {}

\* an authentication stage that also wants the row the token names to be
\* there still, with the role the token carries
JwtAuthGuardRowLookup(hdr, t) ==
  IF hdr = {} THEN {}
  ELSE {who \in ResolveToken(CHOOSE tok \in hdr : TRUE, t) :
          \E u \in users : u.id = who.id /\ u.role = who.role}

\* authentication stage: the bearer token, resolved
JwtAuthGuard(hdr, t) ==
  IF hdr = {} THEN {} ELSE ResolveToken(CHOOSE tok \in hdr : TRUE, t)

\* role stage
RolesGuard(user, route) ==
  RequiredRoles(route) = {} \/ user.role \in RequiredRoles(route)

\* a token signed with another key, and a held token with its role rewritten
ForgedToken ==
  LET full == [sub |-> 1, username |-> "admin", role |-> "admin",
               iat |-> 0, exp |-> MaxTime + 1]
  IN  [sub |-> full.sub, username |-> full.username, role |-> full.role,
       iat |-> full.iat, exp |-> full.exp, sig |-> Hmac("other", full)]

Tampered(tok) == [tok EXCEPT !.role = IF @ = "admin" THEN "viewer" ELSE "admin"]

\* the Authorization headers a client may send: none, the token it holds,
\* that token rewritten, a forged one
Headers ==
  {{}, {ForgedToken}} \cup {{tok} : tok \in heldToken}
                      \cup {{Tampered(tok)} : tok \in heldToken}

\* a request to a protected operation
HandleRequest(hdr, route, dbOk) ==
  /\ pc = "listening"
  /\ req' = [NoReq EXCEPT !.op = "request", !.hdr = hdr,
                          !.route = route]
  /\ LET who == JwtAuthGuard(hdr, now) IN
     IF who = {}
     THEN resp' = Exception(401, "UnauthorizedException", "Unauthorized", 0)
     ELSE LET user == CHOOSE u \in who : TRUE IN
          IF ~RolesGuard(user, route)
          THEN resp' = Exception(403, "ForbiddenException",
                                 "Forbidden resource", 0)
          ELSE IF route = "GET /auth/me"
          THEN resp' = [GetProfile(user.id, dbOk) EXCEPT !.handler = TRUE]
          ELSE resp' = [NoResp EXCEPT !.status = 200, !.handler = TRUE]
  /\ UNCHANGED <<pc, boots, dirExists, dbVars, migVars, seed, now, heldToken,
                 svcVars>>

\* ------------------------------------------------------------- UserService
\* findById(id): the row without its password
UserFindById(id) == {PublicUser(u) : u \in {r \in users : r.id = id}}

\* create(createUserDto)
UserCreate(username, password, role, salt, dbOk) ==
  /\ pc = "listening"
  /\ creates < MaxCreates
  /\ req' = [NoReq EXCEPT !.op = "users.create", !.username = username,
                          !.password = password, !.role = role]
  /\ IF ~dbOk
     THEN /\ resp' = Exception(500, "Error", "Internal server error", 0)
          /\ UNCHANGED <<users, nextId, creates>>
     ELSE IF \E u \in users : u.username = username
     THEN /\ resp' = Exception(409, "ConflictException",
                               "Username already exists", 0)
          /\ UNCHANGED <<users, nextId, creates>>
     ELSE /\ users' = users \cup
                {[id |-> nextId, username |-> username,
                  password |-> BcryptHash(password, salt), role |-> role]}
          /\ nextId' = nextId + 1
          /\ creates' = creates + 1
          /\ resp' = [NoResp EXCEPT !.status = 201, !.handler = TRUE,
                        !.user = {[id |-> nextId, username |-> username,
                                   role |-> role]}]
  /\ UNCHANGED <<pc, boots, dirExists, ledger, execCount, migVars, seed, now,
                 heldToken,
                 svcVars>>

\* delete without the self-deletion check
UserDeleteNoSelfCheck(id, currentUserId, dbOk) ==
  /\ pc = "listening"
  /\ req' = [NoReq EXCEPT !.op = "users.delete", !.id = id,
                          !.currentUserId = currentUserId]
  /\ IF ~dbOk
     THEN /\ resp' = Exception(500, "Error", "Internal server error", 0)
          /\ UNCHANGED users
     ELSE IF {r \in users : r.id = id} = {}
     THEN /\ resp' = Exception(404, "NotFoundException",
                               "User with ID not found", id)
          /\ UNCHANGED users
     ELSE /\ users' = {u \in users : u.id # id}
          /\ resp' = [NoResp EXCEPT !.status = 204, !.handler = TRUE]
  /\ UNCHANGED <<pc, boots, dirExists, nextId, creates, ledger, execCount,
                 migVars, seed, now, heldToken,
                 svcVars>>

\* delete(id, currentUserId)
UserDelete(id, currentUserId, dbOk) ==
  /\ pc = "listening"
  /\ req' = [NoReq EXCEPT !.op = "users.delete", !.id = id,
                          !.currentUserId = currentUserId]
  /\ IF id = currentUserId
     THEN /\ resp' = Exception(409, "ConflictException",
                               "Cannot delete your own account", 0)
          /\ UNCHANGED users
     ELSE IF ~dbOk
     THEN /\ resp' = Exception(500, "Error", "Internal server error", 0)
          /\ UNCHANGED users
     ELSE IF UserFindById(id) = {}
     THEN /\ resp' = Exception(404, "NotFoundException",
                               "User with ID not found", id)
          /\ UNCHANGED users
     ELSE /\ users' = {u \in users : u.id # id}
          /\ resp' = [NoResp EXCEPT !.status = 204, !.handler = TRUE]
  /\ UNCHANGED <<pc, boots, dirExists, nextId, creates, ledger, execCount,
                 migVars, seed, now, heldToken,
                 svcVars>>

\* if (value): undefined and '' are falsy
Truthy(v) == v # {} /\ v # {""}

UpdateUserDtos(usernames, passwords, roles) ==
  [username : usernames, password : passwords, role : roles]

\* a uniqueness check that forgets to leave out the row itself
UsernameTakenByAnyRow(username, id) ==
  \E u \in users : u.username = username

\* SELECT id FROM users WHERE username = ? AND id != ? returned a row
UsernameTaken(username, id) ==
  \E u \in users : u.username = username /\ u.id # id

\* a SET list that stores the password as it came
UserPatchPlain(row, dto, salt) ==
  [id |-> row.id,
   username |-> IF Truthy(dto.username) THEN CHOOSE x \in dto.username : TRUE
                ELSE row.username,
   password |-> IF Truthy(dto.password)
                THEN [alg |-> "none", salt |-> 0,
                      digest |-> CHOOSE x \in dto.password : TRUE]
                ELSE row.password,
   role |-> IF Truthy(dto.role) THEN CHOOSE x \in dto.role : TRUE
            ELSE row.role]

\* the SET list update() builds from the fields that are truthy; the
\* password goes through bcrypt.hash first
UserPatch(row, dto, salt) ==
  [id |-> row.id,
   username |-> IF Truthy(dto.username) THEN CHOOSE x \in dto.username : TRUE
                ELSE row.username,
   password |-> IF Truthy(dto.password)
                THEN BcryptHash(CHOOSE x \in dto.password : TRUE, salt)
                ELSE row.password,
   role |-> IF Truthy(dto.role) THEN CHOOSE x \in dto.role : TRUE
            ELSE row.role]

UserNoFields(dto) ==
  ~Truthy(dto.username) /\ ~Truthy(dto.password) /\ ~Truthy(dto.role)

\* update(id, updateUserDto): findById, the uniqueness check, executeUpdate,
\* findById; failAt is the database call that throws (0: none)
UserUpdate(id, dto, salt, failAt) ==
  /\ pc = "listening"
  /\ req' = [NoReq EXCEPT !.op = "users.update", !.id = id, !.dto = {dto},
                          !.failAt = failAt]
  /\ IF failAt = 1
     THEN /\ resp' = Exception(500, "Error", "Internal server error", 0)
          /\ UNCHANGED users
     ELSE IF UserFindById(id) = {}
     THEN /\ resp' = Exception(404, "NotFoundException",
                               "User with ID not found", id)
          /\ UNCHANGED users
     ELSE IF Truthy(dto.username) /\ failAt = 2
     THEN /\ resp' = Exception(500, "Error", "Internal server error", 0)
          /\ UNCHANGED users
     ELSE IF /\ Truthy(dto.username)
             /\ UsernameTaken(CHOOSE x \in dto.username : TRUE, id)
     THEN /\ resp' = Exception(409, "ConflictException",
                               "Username already exists", 0)
          /\ UNCHANGED users
     ELSE IF UserNoFields(dto)
     THEN /\ resp' = IF failAt = 4
                     THEN Exception(500, "Error", "Internal server error", 0)
                     ELSE [NoResp EXCEPT !.status = 200, !.handler = TRUE,
                                         !.user = UserFindById(id)]
          /\ UNCHANGED users
     ELSE IF failAt = 3
     THEN /\ resp' = Exception(500, "Error", "Internal server error", 0)
          /\ UNCHANGED users
     ELSE LET row == CHOOSE r \in users : r.id = id
              patched == UserPatch(row, dto, salt)
          IN  /\ users' = (users \ {row}) \cup {patched}
              /\ resp' = IF failAt = 4
                         THEN Exception(500, "Error",
                                        "Internal server error", 0)
                         ELSE [NoResp EXCEPT !.status = 200,
                                             !.handler = TRUE,
                                             !.user = {PublicUser(patched)}]
  /\ UNCHANGED <<pc, boots, dirExists, nextId, creates, ledger, execCount,
                 migVars, seed, now, heldToken, svcVars>>

\* GET /users/:id: findById(id)
UserGet(id, failAt) ==
  /\ pc = "listening"
  /\ req' = [NoReq EXCEPT !.op = "users.findById", !.id = id,
                          !.failAt = failAt]
  /\ resp' = IF failAt = 1
             THEN Exception(500, "Error", "Internal server error", 0)
             ELSE IF UserFindById(id) = {}
             THEN Exception(404, "NotFoundException",
                            "User with ID not found", id)
             ELSE [NoResp EXCEPT !.status = 200, !.handler = TRUE,
                                 !.user = UserFindById(id)]
  /\ UNCHANGED <<pc, boots, dirExists, dbVars, migVars, seed, now, heldToken,
                 svcVars>>

\* the password column of one row rewritten with the hash of another
\* plaintext or salt, as the password branch of update() writes it, every
\* other column and the last request and response left as they are: the
\* same database differing only in a stored hash
StoredHashChange(id, plain, salt) ==
  /\ pc = "listening"
  /\ \E row \in users :
       /\ row.id = id
       /\ row.password # BcryptHash(plain, salt)
       /\ users' = (users \ {row}) \cup
            {UserPatch(row, [username |-> {}, password |-> {plain},
                             role |-> {}], salt)}
  /\ UNCHANGED <<pc, boots, dirExists, nextId, creates, ledger, execCount,
                 migVars, seed, now, httpVars, svcVars>>

\* --------------------------------------------------------- CustomerService
CustomerNames == {"John Doe"}
Emails == {"john@x.com", "jane@x.com"}
Phones == {"555-0100"}
Companies == {"Acme"}
Addresses == {"1 Main St"}

\* an optional text field of a DTO: undefined, the empty string, or a text
OptionalTexts(S) == {{}, {""}} \cup {{x} : x \in S}

\* an optional field that is either undefined or a text
Given(S) == {{}} \cup {{x} : x \in S}

The(S) == CHOOSE x \in S : TRUE

\* a value bound as it came, the empty string included
OrNullKeepsEmpty(v) == v

\* value || null : undefined and '' become NULL (the empty set)
OrNull(v) == IF v = {} \/ v = {""} THEN {} ELSE v

\* what the HTTP layer makes of an error that is not an HttpException
ServerError == Exception(500, "Error", "Internal server error", 0)

NotFound(entity, id) ==
  Exception(404, "NotFoundException", entity \o " with ID not found", id)

\* the DTOs whose fields are drawn from the given sets of optional values
CustomerDtos(names, emails, phones, companies, addresses) ==
  [name : names, email : emails, phone : phones, company : companies,
   address : addresses]

Required(S) == {{x} : x \in S}

\* a lookup that forgets its WHERE clause
CustomerFindByIdAnyRow(id) == customers

\* SELECT ... FROM customers WHERE id = ?
CustomerFindById(id) == {r \in customers : r.id = id}

\* create(createCustomerDto): executeInsert, then findById(insertId)
CustomerCreate(dto, failAt) ==
  /\ pc = "listening"
  /\ nextCustomerId <= MaxCustomers
  /\ req' = [NoReq EXCEPT !.op = "customers.create", !.dto = {dto},
                          !.failAt = failAt]
  /\ IF failAt = 1
     THEN /\ resp' = ServerError
          /\ UNCHANGED custVars
     ELSE LET row == [id |-> nextCustomerId, name |-> The(dto.name),
                      email |-> The(dto.email), phone |-> The(dto.phone),
                      company |-> OrNull(dto.company),
                      address |-> OrNull(dto.address)]
          IN  /\ customers' = customers \cup {row}
              /\ nextCustomerId' = nextCustomerId + 1
              /\ resp' = IF failAt = 2 THEN ServerError
                         ELSE [NoResp EXCEPT !.status = 201, !.handler = TRUE,
                                             !.body = {row}]
  /\ UNCHANGED <<pc, boots, dirExists, dbVars, migVars, seed, now, heldToken,
                 prevSeed, tx, calls>>

\* the SET list update() builds from the fields that are not undefined
CustomerPatch(row, dto) ==
  [id |-> row.id,
   name |-> IF dto.name # {} THEN The(dto.name) ELSE row.name,
   email |-> IF dto.email # {} THEN The(dto.email) ELSE row.email,
   phone |-> IF dto.phone # {} THEN The(dto.phone) ELSE row.phone,
   company |-> IF dto.company # {} THEN OrNull(dto.company) ELSE row.company,
   address |-> IF dto.address # {} THEN OrNull(dto.address) ELSE row.address]

CustomerNoFields(dto) ==
  /\ dto.name = {} /\ dto.email = {} /\ dto.phone = {}
  /\ dto.company = {} /\ dto.address = {}

\* update(id, updateCustomerDto): findById, executeUpdate, findById
CustomerUpdate(id, dto, failAt) ==
  /\ pc = "listening"
  /\ req' = [NoReq EXCEPT !.op = "customers.update", !.id = id,
                          !.dto = {dto}, !.failAt = failAt]
  /\ IF failAt = 1
     THEN resp' = ServerError /\ UNCHANGED customers
     ELSE IF CustomerFindById(id) = {}
     THEN resp' = NotFound("Customer", id) /\ UNCHANGED customers
     ELSE IF failAt = 2
     THEN resp' = ServerError /\ UNCHANGED customers
     ELSE IF CustomerNoFields(dto)
     THEN /\ resp' = [NoResp EXCEPT !.status = 200, !.handler = TRUE,
                                    !.body = CustomerFindById(id)]
          /\ UNCHANGED customers
     ELSE LET row == The(CustomerFindById(id))
              patched == CustomerPatch(row, dto)
          IN  /\ customers' = (customers \ {row}) \cup {patched}
              /\ resp' = IF failAt = 3 THEN ServerError
                         ELSE [NoResp EXCEPT !.status = 200, !.handler = TRUE,
                                             !.body = {patched}]
  /\ UNCHANGED <<pc, boots, dirExists, dbVars, migVars, seed, now, heldToken,
                 prevSeed, nextCustomerId, tx, calls>>

\* delete(id): findById, executeDelete, affectedRows
CustomerDelete(id, failAt) ==
  /\ pc = "listening"
  /\ req' = [NoReq EXCEPT !.op = "customers.delete", !.id = id,
                          !.failAt = failAt]
  /\ IF failAt = 1
     THEN resp' = ServerError /\ UNCHANGED customers
     ELSE IF CustomerFindById(id) = {}
     THEN resp' = NotFound("Customer", id) /\ UNCHANGED customers
     ELSE IF failAt = 2
     THEN resp' = ServerError /\ UNCHANGED customers
     ELSE LET affectedRows == Cardinality(CustomerFindById(id))
          IN  /\ customers' = {r \in customers : r.id # id}
              /\ resp' = IF affectedRows = 0 THEN NotFound("Customer", id)
                         ELSE [NoResp EXCEPT !.status = 204, !.handler = TRUE]
  /\ UNCHANGED <<pc, boots, dirExists, dbVars, migVars, seed, now, heldToken,
                 prevSeed, nextCustomerId, tx, calls>>

\* GET /customers/:id
CustomerGet(id, failAt) ==
  /\ pc = "listening"
  /\ req' = [NoReq EXCEPT !.op = "customers.findById", !.id = id,
                          !.failAt = failAt]
  /\ resp' = IF failAt = 1 THEN ServerError
             ELSE IF CustomerFindById(id) = {} THEN NotFound("Customer", id)
             ELSE [NoResp EXCEPT !.status = 200, !.handler = TRUE,
                                 !.body = CustomerFindById(id)]
  /\ UNCHANGED <<pc, boots, dirExists, dbVars, migVars, seed, now, heldToken,
                 prevSeed, custVars, tx, calls>>

\* --------------------------------------------- DatabaseService.transaction
\* the values a callback may return
CallbackResults == 1..MaxResult

RestVars == <<pc, boots, dirExists, dbVars, migVars, seed, now, httpVars,
              prevSeed, calls>>

\* pool.getConnection() and connection.beginTransaction(), both before the
\* try block
TxBegin(getOk, beginOk) ==
  /\ pc = "listening"
  /\ tx.state \in {"none", "done"}
  /\ tx' = IF ~getOk
           THEN [NoTx EXCEPT !.state = "done", !.thrown = {"E_connect"}]
           ELSE IF ~beginOk
           THEN [NoTx EXCEPT !.state = "done", !.acquired = 1,
                             !.thrown = {"E_begin"}]
           ELSE [NoTx EXCEPT !.state = "callback", !.acquired = 1]
  /\ UNCHANGED <<RestVars, custVars>>

\* await callback(connection): the callback may write a customers row on
\* the connection, and returns a value or throws
TxCallback(write, throws, result) ==
  /\ tx.state = "callback"
  /\ write => nextCustomerId <= MaxCustomers
  /\ LET row == [id |-> nextCustomerId, name |-> "John Doe",
                  email |-> "john@x.com", phone |-> "555-0100",
                  company |-> {}, address |-> {}]
     IN  /\ nextCustomerId' = IF write THEN nextCustomerId + 1
                              ELSE nextCustomerId
         /\ tx' = [tx EXCEPT
                     !.pending = IF write THEN {row} ELSE {},
                     !.cb = IF throws THEN "threw" ELSE "returned",
                     !.cbResult = IF throws THEN 0 ELSE result,
                     !.caught = IF throws THEN "E_cb" ELSE "",
                     !.state = IF throws THEN "rollback" ELSE "commit"]
  /\ UNCHANGED <<RestVars, customers>>

\* await connection.commit(); a failure lands in the catch block
TxCommit(ok) ==
  /\ tx.state = "commit"
  /\ IF ok
     THEN /\ customers' = customers \cup tx.pending
          /\ tx' = [tx EXCEPT !.commitCalls = @ + 1, !.commits = @ + 1,
                              !.pending = {}, !.returned = {tx.cbResult},
                              !.state = "release"]
     ELSE /\ tx' = [tx EXCEPT !.commitCalls = @ + 1, !.caught = "E_commit",
                              !.state = "rollback"]
          /\ UNCHANGED customers
  /\ UNCHANGED <<RestVars, nextCustomerId>>

\* a catch block that rethrows without rolling back
TxRollbackSkipped(ok) ==
  /\ tx.state = "rollback"
  /\ tx' = [tx EXCEPT !.thrown = {tx.caught}, !.state = "release"]
  /\ UNCHANGED <<RestVars, custVars>>

\* catch (error): await connection.rollback(); log; throw error
TxRollback(ok) ==
  /\ tx.state = "rollback"
  /\ tx' = IF ok
           THEN [tx EXCEPT !.rollbackCalls = @ + 1, !.rollbacks = @ + 1,
                           !.pending = {}, !.thrown = {tx.caught},
                           !.state = "release"]
           ELSE [tx EXCEPT !.rollbackCalls = @ + 1,
                           !.thrown = {"E_rollback"}, !.state = "release"]
  /\ UNCHANGED <<RestVars, custVars>>

\* finally: connection.release()
TxRelease ==
  /\ tx.state = "release"
  /\ tx' = [tx EXCEPT !.released = @ + 1, !.state = "done"]
  /\ UNCHANGED <<RestVars, custVars>>

\* checkConnection(): getConnection, ping, release inside one try block
\* whose catch returns false; a failed ping skips the release
CheckConnection(getOk, pingOk) ==
  /\ pc = "listening"
  /\ tx.state \in {"none", "done"}
  /\ tx' = IF ~getOk
           THEN [NoTx EXCEPT !.state = "done", !.caught = "E_connect"]
           ELSE IF ~pingOk
           THEN [NoTx EXCEPT !.state = "done", !.acquired = 1,
                             !.caught = "E_ping"]
           ELSE [NoTx EXCEPT !.state = "done", !.acquired = 1,
                             !.released = 1]
  /\ req' = [NoReq EXCEPT !.op = "checkConnection"]
  /\ resp' = [NoResp EXCEPT !.status = 200, !.handler = TRUE,
                            !.body = {[connected |-> getOk /\ pingOk]}]
  /\ UNCHANGED <<pc, boots, dirExists, dbVars, migVars, seed, now, heldToken,
                 prevSeed, custVars, calls>>

\* ------------------------------------------------------------- pagination
\* the total / limit of a mutant that rounds down
MathFloor(total, limit) == total \div limit

\* Math.ceil(total / limit), for total >= 0 and limit >= 1
MathCeil(total, limit) ==
  IF total % limit = 0 THEN total \div limit ELSE total \div limit + 1

\* the limits a query may carry: the small ones, the default and the maximum
Limits == (1..MaxLimit) \cup {10, 100}

\* paginationQuery: undefined (the empty set), or {page?, limit?}
PaginationQueries ==
  {{}} \cup {{q} : q \in [page : Given(1..MaxPage), limit : Given(Limits)]}

\* const { page = 1, limit = 10 } = paginationQuery || {}
QueryPage(query) ==
  IF query = {} THEN 1
  ELSE IF The(query).page = {} THEN 1 ELSE The(The(query).page)

QueryLimit(query) ==
  IF query = {} THEN 10
  ELSE IF The(query).limit = {} THEN 10 ELSE The(The(query).limit)

\* ORDER BY created_at DESC LIMIT limit OFFSET offset; rows are created in
\* the order of their ids
PageOf(table, limit, offset) ==
  {r \in table :
     LET before == Cardinality({x \in table : x.id > r.id})
     IN  offset <= before /\ before < offset + limit}

\* findAll(paginationQuery) of either service, on the rows it selects
FindAll(table, query) ==
  LET page == QueryPage(query)
      limit == QueryLimit(query)
      offset == (page - 1) * limit
      total == Cardinality(table)
      totalPages == MathCeil(total, limit)
  IN  [data |-> PageOf(table, limit, offset),
       sqlLimit |-> limit, sqlOffset |-> offset,
       total |-> total, page |-> page, limit |-> limit,
       totalPages |-> totalPages,
       hasNext |-> page < totalPages,
       hasPrev |-> page > 1]

\* CustomerService.findAll: the count query, then the data query
CustomerFindAll(query, failAt) ==
  /\ pc = "listening"
  /\ req' = [NoReq EXCEPT !.op = "customers.findAll", !.dto = query,
                          !.failAt = failAt]
  /\ resp' = IF failAt # 0 THEN ServerError
             ELSE [NoResp EXCEPT !.status = 200, !.handler = TRUE,
                                 !.body = {FindAll(customers, query)}]
  /\ UNCHANGED <<pc, boots, dirExists, dbVars, migVars, seed, now, heldToken,
                 prevSeed, custVars, tx, calls>>

\* SELECT id, username, role, created_at, updated_at FROM users
UserColumns(table) == {PublicUser(u) : u \in table}

\* UserService.findAll: the count query, then the data query
UserFindAll(query, failAt) ==
  /\ pc = "listening"
  /\ req' = [NoReq EXCEPT !.op = "users.findAll", !.dto = query,
                          !.failAt = failAt]
  /\ resp' = IF failAt # 0 THEN ServerError
             ELSE [NoResp EXCEPT !.status = 200, !.handler = TRUE,
                                 !.body = {FindAll(UserColumns(users), query)}]
  /\ UNCHANGED <<pc, boots, dirExists, dbVars, migVars, seed, now, heldToken,
                 prevSeed, custVars, tx, calls>>

\* -------------------------------------------------------- concurrent calls
\* Calls of several clients are in flight at once; each awaited database call
\* of a service method is a step of its own, and the steps of different
\* calls interleave.
CallVars == <<pc, boots, dirExists, ledger, execCount, migVars, seed, now,
              httpVars, prevSeed, tx>>

Conflict == Exception(409, "ConflictException", "Username already exists", 0)

\* the UNIQUE key on users.username refuses the write (ER_DUP_ENTRY): some
\* other row has the username
DuplicateKey(username, id) ==
  \E u \in users : u.username = username /\ u.id # id

\* create(): SELECT id FROM users WHERE username = ?
CreateCheck(c, username) ==
  /\ pc = "listening"
  /\ calls[c].at = "idle"
  /\ calls' = [calls EXCEPT ![c] =
       IF \E u \in users : u.username = username
       THEN [NoCall EXCEPT !.op = "users.create", !.username = username,
                           !.at = "done", !.result = Conflict]
       ELSE [NoCall EXCEPT !.op = "users.create", !.username = username,
                           !.at = "checked"]]
  /\ UNCHANGED <<CallVars, users, nextId, creates, custVars>>

\* create(): bcrypt.hash, executeInsert, findById(insertId); an error of the
\* INSERT is not caught
CreateInsert(c, salt) ==
  /\ calls[c].at = "checked"
  /\ calls[c].op = "users.create"
  /\ IF DuplicateKey(calls[c].username, 0)
     THEN /\ calls' = [calls EXCEPT ![c].at = "done",
                                     ![c].result = ServerError]
          /\ UNCHANGED <<users, nextId, creates>>
     ELSE /\ creates < MaxCreates
          /\ users' = users \cup
               {[id |-> nextId, username |-> calls[c].username,
                 password |-> BcryptHash("secret", salt), role |-> "viewer"]}
          /\ nextId' = nextId + 1
          /\ creates' = creates + 1
          /\ calls' = [calls EXCEPT ![c].at = "done", ![c].id = nextId,
                 ![c].result =
                   [NoResp EXCEPT !.status = 201, !.handler = TRUE,
                      !.user = {[id |-> nextId,
                                 username |-> calls[c].username,
                                 role |-> "viewer"]}]]
  /\ UNCHANGED <<CallVars, custVars>>

\* update(id, {username}): findById, then SELECT id FROM users WHERE
\* username = ? AND id != ?
RenameCheck(c, id, username) ==
  /\ pc = "listening"
  /\ calls[c].at = "idle"
  /\ calls' = [calls EXCEPT ![c] =
       LET call == [NoCall EXCEPT !.op = "users.update", !.id = id,
                                  !.username = username]
       IN  IF UserFindById(id) = {}
           THEN [call EXCEPT !.at = "done",
                             !.result = Exception(404, "NotFoundException",
                                          "User with ID not found", id)]
           ELSE IF UsernameTaken(username, id)
           THEN [call EXCEPT !.at = "done", !.result = Conflict]
           ELSE [call EXCEPT !.at = "checked"]]
  /\ UNCHANGED <<CallVars, users, nextId, creates, custVars>>

\* update(id, {username}): executeUpdate, findById(id); an error of the
\* UPDATE is not caught
RenameWrite(c) ==
  /\ calls[c].at = "checked"
  /\ calls[c].op = "users.update"
  /\ LET id == calls[c].id
         username == calls[c].username
     IN  IF DuplicateKey(username, id) /\ UserFindById(id) # {}
         THEN /\ calls' = [calls EXCEPT ![c].at = "done",
                                         ![c].result = ServerError]
              /\ UNCHANGED users
         ELSE /\ users' = {[u EXCEPT !.username =
                                IF u.id = id THEN username ELSE @] :
                             u \in users}
              /\ calls' = [calls EXCEPT ![c].at = "done",
                     ![c].result =
                       IF UserFindById(id) = {}
                       THEN Exception(404, "NotFoundException",
                                      "User with ID not found", id)
                       ELSE [NoResp EXCEPT !.status = 200, !.handler = TRUE,
                               !.user = {[id |-> id, username |-> username,
                                          role |-> r.role] :
                                         r \in {u \in users : u.id = id}}]]
  /\ UNCHANGED <<CallVars, nextId, creates, custVars>>

\* the rows a findAll selects from: customers rows, or the users columns
ListedTable(op) ==
  IF op = "customers.findAll" THEN customers ELSE UserColumns(users)

\* findAll(): SELECT COUNT(*) as total
FindAllCount(c, op, query) ==
  /\ pc = "listening"
  /\ calls[c].at = "idle"
  /\ calls' = [calls EXCEPT ![c] =
       [NoCall EXCEPT !.op = op, !.query = query, !.at = "counted",
                      !.total = Cardinality(ListedTable(op))]]
  /\ UNCHANGED <<CallVars, dbVars, custVars>>

\* findAll(): the data query, run on the table as it is by now, and the
\* metadata computed from the total counted before
FindAllData(c) ==
  /\ calls[c].at = "counted"
  /\ LET query == calls[c].query
         total == calls[c].total
         page == QueryPage(query)
         limit == QueryLimit(query)
         totalPages == MathCeil(total, limit)
         selected == FindAll(ListedTable(calls[c].op), query)
     IN  calls' = [calls EXCEPT ![c].at = "done",
           ![c].result =
             [NoResp EXCEPT !.status = 200, !.handler = TRUE,
                !.body = {[selected EXCEPT !.total = total,
                                           !.totalPages = totalPages,
                                           !.hasNext = page < totalPages]}]]
  /\ UNCHANGED <<CallVars, dbVars, custVars>>

\* the call has returned or thrown; the client may make another
CallReturn(c) ==
  /\ calls[c].at = "done"
  /\ calls' = [calls EXCEPT ![c] = NoCall]
  /\ UNCHANGED <<CallVars, dbVars, custVars>>

\* ----------------------------------------------------------- HealthService
\* the configuration keys a deployment may set; an environment is the set of
\* keys that have a value
ConfigKeys ==
  {"NODE_ENV", "JWT_SECRET", "MYSQL_HOST", "MYSQL_USERNAME", "MYSQL_USER",
   "MYSQL_PASSWORD", "MYSQL_DATABASE", "MYSQL_NAME"}

\* createPool: host has a default; user is MYSQL_USERNAME || MYSQL_USER
PoolSettingsPresent(env) ==
  /\ "MYSQL_USERNAME" \in env \/ "MYSQL_USER" \in env
  /\ "MYSQL_PASSWORD" \in env
  /\ "MYSQL_DATABASE" \in env

\* checkConfiguration: 'error' when one required key has no value
CheckConfiguration(requiredConfig, env) ==
  IF requiredConfig \subseteq env THEN "ok" ELSE "error"

\* requiredConfig of health.service.ts
RequiredConfig == {"NODE_ENV", "JWT_SECRET"}

\* requiredConfig of the HealthService that takes the DatabaseService
RequiredConfigWithDatabase ==
  {"NODE_ENV", "JWT_SECRET", "MYSQL_HOST", "MYSQL_USERNAME",
   "MYSQL_PASSWORD", "MYSQL_NAME"}

\* checkConnection folded into checkDatabase: 'ok' when the ping answers
CheckDatabase(ping) == IF ping THEN "ok" ELSE "error"

\* getReadinessStatus of health.service.ts: status and database are fixed
GetReadinessStatus(env, ping) ==
  [status |-> "ready", database |-> "ok",
   configuration |-> CheckConfiguration(RequiredConfig, env)]

\* getReadinessStatus of the HealthService that takes the DatabaseService
GetReadinessStatusWithDatabase(env, ping) ==
  LET databaseStatus == CheckDatabase(ping)
      configStatus == CheckConfiguration(RequiredConfigWithDatabase, env)
  IN  [status |-> IF databaseStatus = "ok" /\ configStatus = "ok"
                  THEN "ready" ELSE "not_ready",
       database |-> databaseStatus, configuration |-> configStatus]

HealthServices == {"health.service.ts", "with DatabaseService"}

\* GET /health/ready on a process that listens, by either HealthService
Readiness(service, env, ping) ==
  /\ pc = "listening"
  /\ req' = [NoReq EXCEPT !.op = "health.ready",
                          !.dto = {[service |-> service, env |-> env,
                                    ping |-> ping]}]
  /\ resp' = [NoResp EXCEPT !.status = 200, !.handler = TRUE,
                !.body = {IF service = "health.service.ts"
                          THEN GetReadinessStatus(env, ping)
                          ELSE GetReadinessStatusWithDatabase(env, ping)}]
  /\ UNCHANGED <<pc, boots, dirExists, dbVars, migVars, seed, now, heldToken,
                 svcVars>>

\* ----------------------------------------------------------- specification
\* the acting user of a delete: the target itself, or somebody else
Actors(id) == {id, IF id = 1 THEN 2 ELSE 1}

\* what a database call may do: succeed or throw
DbOutcomes == BOOLEAN

\* startup and restarts on a database that may fail at any call, with the
\* user-management writes that change what the seeder finds
Next ==
  \/ \E ok \in DbOutcomes : CreatePool(ok)
  \/ \E ok \in DbOutcomes : StartMigrations(ok)
  \/ \E ok \in DbOutcomes : CheckMigration(ok)
  \/ \E ok \in DbOutcomes : ExecStatement(ok)
  \/ \E ok \in DbOutcomes : RecordMigration(ok)
  \/ \E ok \in DbOutcomes : SeedCheck(ok)
  \/ \E ok \in DbOutcomes, salt \in Salts : SeedInsert(ok, salt)
  \/ Listen
  \/ Restart
  \/ \E id \in 1..nextId :
       \E me \in Actors(id), ok \in DbOutcomes : UserDelete(id, me, ok)

Spec == Init /\ [][Next]_vars

\* a startup on a healthy database
HealthyStart ==
  \/ CreatePool(TRUE)
  \/ StartMigrations(TRUE)
  \/ CheckMigration(TRUE)
  \/ ExecStatement(TRUE)
  \/ RecordMigration(TRUE)
  \/ SeedCheck(TRUE)
  \/ \E salt \in Salts : SeedInsert(TRUE, salt)
  \/ Listen

\* the database calls a protected operation makes behind the guards
HandlerOutcomes(route) == IF route = "GET /auth/me" THEN DbOutcomes ELSE {TRUE}

\* the initial states of a deployment that ships its migrations directory
InitDeployed == Init /\ dirExists = TRUE

\* the initial states of a deployment whose users table is empty
InitFresh == InitDeployed /\ users = {}

\* a healthy startup with the migrations directory in place, then logins and
\* requests to the protected operations while the clock runs
NextAuth ==
  \/ HealthyStart
  \/ Tick
  \/ \E u \in Usernames, p \in Passwords, ok \in DbOutcomes : Login(u, p, ok)
  \/ \E hdr \in Headers, route \in Routes :
       \E ok \in HandlerOutcomes(route) : HandleRequest(hdr, route, ok)

SpecAuth == InitDeployed /\ [][NextAuth]_vars

\* a healthy startup with the migrations directory in place, then logins and
\* user management
NextUsers ==
  \/ HealthyStart
  \/ \E u \in Usernames, p \in Passwords, ok \in DbOutcomes : Login(u, p, ok)
  \/ \E u \in Usernames, p \in Passwords, r \in Roles, salt \in Salts,
        ok \in DbOutcomes : UserCreate(u, p, r, salt, ok)
  \/ \E id \in 1..nextId :
       \E me \in Actors(id), ok \in DbOutcomes : UserDelete(id, me, ok)

SpecUsers == InitDeployed /\ [][NextUsers]_vars

\* a healthy startup, then the customer resource operations with names and
\* emails given and company and address left out; any database call of an
\* operation may fail
NextCustomers ==
  \/ HealthyStart
  \/ \E dto \in CustomerDtos(Required(CustomerNames), Required(Emails),
                              Required(Phones), {{}}, {{}}),
        failAt \in 0..2 : CustomerCreate(dto, failAt)
  \/ \E id \in 1..MaxCustomers,
        dto \in CustomerDtos(Given(CustomerNames), Given(Emails), {{}},
                              {{}}, {{}}),
        failAt \in 0..3 : CustomerUpdate(id, dto, failAt)
  \/ \E id \in 1..MaxCustomers, failAt \in 0..2 : CustomerDelete(id, failAt)
  \/ \E id \in 1..MaxCustomers, failAt \in 0..1 : CustomerGet(id, failAt)

\* a healthy startup, then customers created and updated with every form of
\* company and address: left out, empty, or a text
NextCustomerFields ==
  \/ HealthyStart
  \/ \E dto \in CustomerDtos(Required(CustomerNames), {{"john@x.com"}},
                              Required(Phones), OptionalTexts(Companies),
                              OptionalTexts(Addresses)),
        failAt \in {0, 2} : CustomerCreate(dto, failAt)
  \/ \E id \in 1..MaxCustomers,
        dto \in CustomerDtos({{}}, {{}}, Given(Phones),
                              OptionalTexts(Companies),
                              OptionalTexts(Addresses)),
        failAt \in {0, 3} : CustomerUpdate(id, dto, failAt)

\* a customers table and a users table of n rows
CustomerTable(n) ==
  {[id |-> i, name |-> "John Doe", email |-> "john@x.com",
    phone |-> "555-0100", company |-> {}, address |-> {}] : i \in 1..n}

UserTable(n) ==
  {[id |-> i, username |-> "user" \o ToString(i),
    password |-> BcryptHash("secret", 1), role |-> "viewer"] : i \in 1..n}

\* a deployment whose tables hold 0..MaxTotal rows before the start
InitPage ==
  /\ pc = "created"
  /\ boots = 1
  /\ dirExists = TRUE
  /\ \E n \in 0..MaxTotal :
       /\ users = UserTable(n)
       /\ customers = CustomerTable(n)
       /\ nextId = n + 1
       /\ nextCustomerId = n + 1
  /\ creates = 0
  /\ ledger = {}
  /\ execCount = [k \in 1..NumScripts |-> [s \in 1..StmtsPerScript |-> 0]]
  /\ cur = 0
  /\ stmt = 0
  /\ run = NoRun
  /\ prevRun = "none"
  /\ seed = "none"
  /\ now = 0
  /\ heldToken = {}
  /\ req = NoReq
  /\ resp = NoResp
  /\ prevSeed = "none"
  /\ tx = NoTx
  /\ calls = NoCalls

\* a healthy startup, then the listing of both tables page by page
NextPage ==
  \/ HealthyStart
  \/ \E query \in PaginationQueries, failAt \in 0..2 :
       CustomerFindAll(query, failAt)
  \/ \E query \in PaginationQueries, failAt \in 0..2 :
       UserFindAll(query, failAt)

SpecPage == InitPage /\ [][NextPage]_vars

\* a healthy startup, then user management by username and role, any
\* database call of an update failing or not
NextUserCrud ==
  \/ HealthyStart
  \/ \E u \in Usernames, r \in Roles, ok \in DbOutcomes :
       UserCreate(u, "secret", r, 1, ok)
  \/ \E id \in 1..nextId,
        dto \in UpdateUserDtos(Given(Usernames), {{}}, Given({"viewer"})),
        failAt \in {0, 2, 4} : UserUpdate(id, dto, 1, failAt)
  \/ \E id \in 1..nextId :
       \E me \in Actors(id), ok \in DbOutcomes : UserDelete(id, me, ok)
  \/ \E id \in 1..nextId, failAt \in 0..1 : UserGet(id, failAt)

\* the initial states of a deployment whose users all have one password
InitUserCrud == InitDeployed /\ \A u \in users : BcryptCompare("secret", u.password)

SpecUserCrud == InitUserCrud /\ [][NextUserCrud]_vars

\* a healthy startup on empty tables, then rows of both resources created,
\* read, updated and deleted by id, on a database that answers
NextCrud ==
  \/ HealthyStart
  \/ \E dto \in CustomerDtos(Required(CustomerNames), {{"john@x.com"}},
                              Required(Phones), {{}}, {{}}) :
       CustomerCreate(dto, 0)
  \/ \E id \in 1..MaxCustomers + 1,
        dto \in CustomerDtos({{}}, Given({"jane@x.com"}), {{}}, {{}}, {{}}) :
       CustomerUpdate(id, dto, 0)
  \/ \E id \in 1..MaxCustomers + 1 : CustomerDelete(id, 0)
  \/ \E id \in 1..MaxCustomers + 1 : CustomerGet(id, 0)
  \/ UserCreate("bob", "secret", "viewer", 1, TRUE)
  \/ \E id \in 1..nextId, dto \in UpdateUserDtos({{}}, {{}}, Given({"admin"})) :
       UserUpdate(id, dto, 1, 0)
  \/ \E id \in 1..nextId : \E me \in Actors(id) : UserDelete(id, me, TRUE)
  \/ \E id \in 1..nextId : UserGet(id, 0)

SpecCrud == InitFresh /\ [][NextCrud]_vars

\* a healthy startup, then every write of a password: the seeded admin,
\* created users, and updates that carry a password, an empty one, or none
NextPasswords ==
  \/ HealthyStart
  \/ \E u \in Usernames, p \in Passwords, salt \in Salts :
       UserCreate(u, p, "viewer", salt, TRUE)
  \/ \E id \in 1..nextId,
        dto \in UpdateUserDtos({{}}, OptionalTexts(Passwords), {{}}),
        salt \in Salts, failAt \in {0, 4} : UserUpdate(id, dto, salt, failAt)

SpecPasswords == InitDeployed /\ [][NextPasswords]_vars

\* a healthy startup, then the operations that hand a user to a caller,
\* repeated on databases that differ only in stored password hashes
NextHashes ==
  \/ HealthyStart
  \/ \E id \in 1..nextId, plain \in Passwords, salt \in Salts :
       StoredHashChange(id, plain, salt)
  \/ \E u \in Usernames, p \in Passwords : Login(u, p, TRUE)
  \/ \E hdr \in Headers : HandleRequest(hdr, "GET /auth/me", TRUE)
  \/ \E query \in {{}, {[page |-> {1}, limit |-> {1}]}} :
       UserFindAll(query, 0)
  \/ \E id \in 1..nextId : UserGet(id, 0)
  \/ UserCreate("bob", "secret", "viewer", 1, TRUE)
  \/ \E id \in 1..nextId,
        dto \in UpdateUserDtos({{}}, Given({"secret"}), Given({"viewer"})) :
       UserUpdate(id, dto, 1, 0)

SpecHashes == InitDeployed /\ [][NextHashes]_vars

\* a healthy startup, then logins, logouts, deletions and role changes of
\* users, and requests with the tokens issued, while the clock runs
TokenRoutes == {"GET /auth/me", "GET /customers", "DELETE /customers/:id"}

NextTokens ==
  \/ HealthyStart
  \/ Tick
  \/ \E u \in Usernames, p \in Passwords : Login(u, p, TRUE)
  \/ Logout
  \/ \E id \in 1..nextId : \E me \in Actors(id) : UserDelete(id, me, TRUE)
  \/ \E id \in 1..nextId,
        dto \in UpdateUserDtos({{}}, {{}}, Given(Roles)) :
       UserUpdate(id, dto, 1, 0)
  \/ \E hdr \in Headers, route \in TokenRoutes :
       HandleRequest(hdr, route, TRUE)

SpecTokens == InitDeployed /\ [][NextTokens]_vars

\* a healthy startup, then the operations that check a connection out of
\* the pool, one after the other, every call on the connection failing or not
NextPool ==
  \/ HealthyStart
  \/ \E getOk \in DbOutcomes, beginOk \in DbOutcomes : TxBegin(getOk, beginOk)
  \/ \E write \in BOOLEAN, throws \in BOOLEAN, result \in CallbackResults :
       TxCallback(write, throws, result)
  \/ \E ok \in DbOutcomes : TxCommit(ok)
  \/ \E ok \in DbOutcomes : TxRollback(ok)
  \/ TxRelease
  \/ \E getOk \in DbOutcomes, pingOk \in DbOutcomes :
       CheckConnection(getOk, pingOk)

SpecPool == InitFresh /\ [][NextPool]_vars

\* a healthy startup, then creates and renames of users by clients whose
\* calls interleave, on a database that answers
NextRace ==
  \/ HealthyStart
  \/ \E c \in Clients, u \in Usernames : CreateCheck(c, u)
  \/ \E c \in Clients, salt \in Salts : CreateInsert(c, salt)
  \/ \E c \in Clients, id \in 1..nextId, u \in Usernames :
       RenameCheck(c, id, u)
  \/ \E c \in Clients : RenameWrite(c)
  \/ \E c \in Clients : CallReturn(c)

SpecRace == InitDeployed /\ [][NextRace]_vars

\* a healthy startup, then listings of customers and users by one client
\* while creates and deletes of other callers run between its two queries
ListingQueries == {{}, {[page |-> {1}, limit |-> {1}]}}

NextListing ==
  \/ HealthyStart
  \/ \E op \in {"customers.findAll", "users.findAll"},
        query \in ListingQueries : FindAllCount(1, op, query)
  \/ FindAllData(1)
  \/ CallReturn(1)
  \/ \E dto \in CustomerDtos(Required(CustomerNames), {{"john@x.com"}},
                              Required(Phones), {{}}, {{}}) :
       CustomerCreate(dto, 0)
  \/ \E id \in 1..MaxCustomers : CustomerDelete(id, 0)
  \/ UserCreate("bob", "secret", "viewer", 1, TRUE)
  \/ \E id \in 2..nextId : UserDelete(id, 1, TRUE)

SpecListing == InitFresh /\ [][NextListing]_vars

\* a healthy startup, then logins between changes of passwords and usernames
\* and deletions of users, on a database that answers
NextCredentials ==
  \/ HealthyStart
  \/ \E u \in Usernames, p \in Passwords : Login(u, p, TRUE)
  \/ \E id \in 1..nextId,
        dto \in UpdateUserDtos(Given({"bob"}), Given(Passwords), {{}}),
        salt \in Salts : UserUpdate(id, dto, salt, 0)
  \/ \E id \in 1..nextId : \E me \in Actors(id) : UserDelete(id, me, TRUE)

SpecCredentials == InitDeployed /\ [][NextCredentials]_vars

\* a healthy startup, then readiness checks under every environment, with
\* the database answering the ping or not
NextHealth ==
  \/ HealthyStart
  \/ \E service \in HealthServices, env \in SUBSET ConfigKeys,
        ping \in BOOLEAN : Readiness(service, env, ping)

SpecHealth == InitFresh /\ [][NextHealth]_vars

\* a healthy startup, then transactions one after the other, every call on
\* the connection failing or not
NextTx ==
  \/ HealthyStart
  \/ \E getOk \in DbOutcomes, beginOk \in DbOutcomes : TxBegin(getOk, beginOk)
  \/ \E write \in BOOLEAN, throws \in BOOLEAN, result \in CallbackResults :
       TxCallback(write, throws, result)
  \/ \E ok \in DbOutcomes : TxCommit(ok)
  \/ \E ok \in DbOutcomes : TxRollback(ok)
  \/ TxRelease

SpecCustomers == InitFresh /\ [][NextCustomers]_vars

SpecCustomerFields == InitFresh /\ [][NextCustomerFields]_vars

SpecTx == InitFresh /\ [][NextTx]_vars

\* ================================================================== claims
RowsNamed(username) == {r \in users : r.username = username}

\* the stored hash is the hash of this plaintext under the stored salt
Verifies(plain, row) == row.password = BcryptHash(plain, row.password.salt)

InvalidCredentials ==
  [NoResp EXCEPT !.status = 401, !.error = "UnauthorizedException",
                 !.message = "Invalid credentials"]

\* C1: a login with a username no row has, and a login with a username a row
\* has but a password that does not verify against its hash, both end with
\* the same UnauthorizedException('Invalid credentials'), and neither signs
\* or hands out a token.
C1_LoginFailuresIdentical ==
  [][\A u \in Usernames, p \in Passwords, ok \in DbOutcomes :
       (/\ req'.op = "login"
        /\ Login(u, p, ok)
        /\ \/ RowsNamed(u) = {}
           \/ \A r \in RowsNamed(u) : ~Verifies(p, r))
       => /\ resp' = InvalidCredentials
          /\ ~resp'.signed
          /\ resp'.token = {}
          /\ heldToken' = heldToken]_vars

\* a login was refused although a row with that username exists, in a table
\* where the other username has no row
C1_Witness ==
  /\ req.op = "login"
  /\ resp = InvalidCredentials
  /\ RowsNamed(req.username) # {}
  /\ \A r \in RowsNamed(req.username) : ~Verifies(req.password, r)
  /\ \E u \in Usernames : RowsNamed(u) = {}

\* C2: a login with a row's username and correct password (the lookup
\* answering) succeeds with a token whose payload {sub, username, role} is
\* that row's {id, username, role}; resolving the token gives the same
\* identity, the user object next to it has exactly these three fields, and
\* for an admin row the embedded role is 'admin'.
C2_LoginTokenRoundTrip ==
  [][\A u \in Usernames, p \in Passwords :
       (/\ req'.op = "login"
        /\ Login(u, p, TRUE)
        /\ \E r \in RowsNamed(u) : Verifies(p, r))
       => \E r \in RowsNamed(u), tok \in resp'.token :
            /\ resp'.status = 200
            /\ resp'.token = {tok}
            /\ <<tok.sub, tok.username, tok.role>> = <<r.id, r.username, r.role>>
            /\ ResolveToken(tok, now) =
                 {[id |-> r.id, username |-> r.username, role |-> r.role]}
            /\ resp'.user =
                 {[id |-> r.id, username |-> r.username, role |-> r.role]}
            /\ (r.role = "admin" => tok.role = "admin")]_vars

\* the seeded admin logged in with the default password and holds an admin
\* token
C2_Witness ==
  /\ req.op = "login"
  /\ req.username = "admin"
  /\ req.password = "Admin@123"
  /\ resp.status = 200
  /\ \E tok \in resp.token : tok.role = "admin" /\ heldToken = {tok}
  /\ \E r \in users : r.username = "admin" /\ r.role = "admin"

\* C3: the guard decides in two stages. No token, or a token that does not
\* resolve: 401, and the handler is not reached. A resolved token whose role
\* is not in the operation's allowed set: 403, and the handler is not
\* reached. So a viewer token gets 403 on POST/PUT/DELETE /customers and on
\* every /users operation, and is admitted on the two customer reads.
C3_GuardTwoStages ==
  [][(/\ req'.op = "request"
      /\ \E ok \in DbOutcomes : HandleRequest(req'.hdr, req'.route, ok))
       => LET hdr == req'.hdr
              route == req'.route
              who == IF hdr = {} THEN {}
                     ELSE ResolveToken(CHOOSE tok \in hdr : TRUE, now)
          IN  /\ who = {} => resp'.status = 401 /\ ~resp'.handler
              /\ \A w \in who :
                   /\ (w.role = "viewer" /\
                       route \in {"POST /customers", "PUT /customers/:id",
                                  "DELETE /customers/:id"} \cup UserRoutes)
                      => resp'.status = 403 /\ ~resp'.handler
                   /\ (w.role = "viewer" /\
                       route \in {"GET /customers", "GET /customers/:id"})
                      => resp'.status = 200 /\ resp'.handler
                   /\ (w.role = "admin" /\ route # "GET /auth/me")
                      => resp'.status = 200 /\ resp'.handler
                   /\ resp'.status = 403 => w.role = "viewer"]_vars

\* a request with a valid viewer token to DELETE /customers/:id got 403
C3_Witness ==
  /\ req.op = "request"
  /\ req.route = "DELETE /customers/:id"
  /\ resp.status = 403
  /\ \E tok \in req.hdr :
       \E w \in ResolveToken(tok, now) : w.role = "viewer"

\* C4: UserService.delete(id, currentUserId) with id = currentUserId fails
\* with ConflictException whether or not a row with that id exists and
\* whatever its role, and leaves the users table as it was.
C4_SelfDeleteConflict ==
  [][\A id \in 1..nextId, ok \in DbOutcomes :
       (req'.op = "users.delete" /\ UserDelete(id, id, ok))
       => /\ resp'.status = 409
          /\ resp'.error = "ConflictException"
          /\ users' = users]_vars

\* an admin row's own deletion was refused and the row is still there
C4_Witness ==
  /\ req.op = "users.delete"
  /\ req.id = req.currentUserId
  /\ resp.status = 409
  /\ \E r \in users : r.id = req.id /\ r.role = "admin"

\* C5: when the server starts listening, the users table holds at least one
\* row with role 'admin', whatever the database held before the start.
C5_AdminAfterStartup ==
  [][Listen => \E u \in users' : u.role = "admin"]_vars

MigPcs == {"mig_check", "mig_stmt", "mig_record"}
SeedPcs == {"seeding", "seed_insert"}

C8_SecondRunIdempotent ==
  prevRun = "ok"
    => /\ run.executed = 0
       /\ run.inserted = {}
       /\ run.status # "none" => ledger = run.ledger0
       /\ run.status = "failed" => run.cause = "ledger"

\* a second run returned after a first run that had recorded every script
C8_Witness ==
  /\ prevRun = "ok"
  /\ run.status = "ok"
  /\ ledger = 1..NumScripts
  /\ \A k \in 1..NumScripts : execCount[k][1] = 1

\* C9 (as claimed): no statement of a script is ever executed a second time.
C9_StatementsAtMostOnce ==
  \A k \in 1..NumScripts, s \in 1..StmtsPerScript : execCount[k][s] <= 1

\* C9 (amended): a statement of a script is executed only while the script
\* has no ledger row, and at most once in one runMigrations call; a script
\* whose run ended before its ledger row was inserted is executed again from
\* its first statement by the next start.
C9_NoExecutionOnceRecorded ==
  /\ [][\A k \in 1..NumScripts, s \in 1..StmtsPerScript :
          execCount'[k][s] # execCount[k][s]
          => /\ k \notin ledger
             /\ execCount'[k][s] = execCount[k][s] + 1
             /\ run'.executed = run.executed + 1
             /\ \A t \in 1..StmtsPerScript : t < s => execCount[k][t] >= execCount'[k][s]
     ]_vars
  /\ [](run.executed <= NumScripts * StmtsPerScript)

\* a script is recorded whose first statement was executed twice
C9_Witness ==
  \E k \in ledger : execCount[k][1] = 2

\* C10: when a statement of a script fails, the step executes nothing and
\* records nothing, the failed script has no ledger row, and the error
\* leaves runMigrations for the catch of its caller; from then on this run
\* executes no further statement and inserts no further ledger row, and the
\* rows it inserted for earlier scripts are still in the ledger.
C10_FailureAbortsRun ==
  /\ [][ExecStatement(FALSE)
          => /\ execCount' = execCount
             /\ ledger' = ledger
             /\ migrationFiles[cur].key \notin ledger'
             /\ run'.status = "failed"
             /\ run'.failedAt = <<migrationFiles[cur].key, stmt>>
             /\ pc' = "pre_listen"]_vars
  /\ [][(run.status = "failed" /\ run'.status = "failed")
          => execCount' = execCount /\ ledger' = ledger]_vars
  /\ [](run.inserted \subseteq ledger)
  /\ [](run.status = "failed" /\ run.cause = "stmt"
          => run.failedAt[1] \notin ledger)

\* the first statement of the second script failed after the first script
\* had been recorded in the same run; its second statement was never run
C10_Witness ==
  /\ run.status = "failed"
  /\ run.cause = "stmt"
  /\ run.failedAt = <<2, 1>>
  /\ run.inserted = {1}
  /\ execCount[2][2] = 0
  /\ pc = "listening"
Admins(table) == {u \in table : u.role = "admin"}

\* C11: seedDefaultAdmin is a no-op whenever a row with role 'admin' exists,
\* whatever its username: it inserts nothing and leaves the users table as
\* it was. A call that changes the table found no admin row and leaves
\* exactly one, and a call that returns leaves at least one, so a call that
\* follows a returned call inserts nothing: no second admin account.
C11_SeedNoOpWhenAdminExists ==
  /\ [][(pc \in SeedPcs /\ AdminExists)
          => users' = users /\ nextId' = nextId]_vars
  /\ [][(pc \in SeedPcs /\ pc' # "created" /\ users' # users)
          => /\ Admins(users) = {}
             /\ Cardinality(Admins(users')) = 1
             /\ Cardinality(users') = Cardinality(users) + 1]_vars
  /\ [][(pc \in SeedPcs /\ seed' = "ok") => Admins(users') # {}]_vars

\* the second start's seedDefaultAdmin returned as a no-op: the only row is
\* the admin the first start's call inserted, and it is the only insert ever
C11_Witness ==
  /\ boots = 2
  /\ prevSeed = "ok"
  /\ seed = "ok"
  /\ nextId = 2
  /\ \E u \in users :
       /\ users = {u}
       /\ u = [id |-> 1, username |-> "admin",
               password |-> BcryptHash("Admin@123", 2), role |-> "admin"]

\* the pagination metadata and the data query of a listing of total rows
\* asked with this query: totalPages is the least n with n * limit >= total
PaginationHolds(result, total, query) ==
  LET page == IF query = {} \/ The(query).page = {} THEN 1
              ELSE The(The(query).page)
      limit == IF query = {} \/ The(query).limit = {} THEN 10
               ELSE The(The(query).limit)
  IN  /\ result.total = total
      /\ result.page = page
      /\ result.limit = limit
      /\ result.totalPages \in 0..total
      /\ result.totalPages * limit >= total
      /\ (result.totalPages - 1) * limit < total
      /\ result.hasNext = (page < result.totalPages)
      /\ result.hasPrev = (page > 1)
      /\ result.sqlLimit = limit
      /\ result.sqlOffset = (page - 1) * limit
      /\ total = 0 => result.totalPages = 0 /\ ~result.hasNext

\* C12: for every total T >= 0, page >= 1 and limit L in 1..100, findAll of
\* customers and of users returns totalPages = ceil(T / L), hasNext = (page <
\* totalPages), hasPrev = (page > 1) and queries the data with LIMIT L OFFSET
\* (page - 1) * L; T = 0 gives totalPages = 0 and hasNext = false; an omitted
\* page is 1 and an omitted limit is 10.
C12_PaginationMetadata ==
  [][/\ (req'.op = "customers.findAll" /\ CustomerFindAll(req'.dto, 0))
        => \A result \in resp'.body :
             PaginationHolds(result, Cardinality(customers), req'.dto)
     /\ (req'.op = "users.findAll" /\ UserFindAll(req'.dto, 0))
        => \A result \in resp'.body :
             PaginationHolds(result, Cardinality(users), req'.dto)]_vars

\* the second of three pages of two rows was listed from five customers
C12_Witness ==
  /\ req.op = "customers.findAll"
  /\ resp.status = 200
  /\ Cardinality(customers) = 5
  /\ \E result \in resp.body :
       /\ result.page = 2 /\ result.limit = 2 /\ result.totalPages = 3
       /\ result.hasNext /\ result.hasPrev
       /\ Cardinality(result.data) = 2

TxEnded == tx.state = "done" /\ tx.cb # "none"

\* C13 (as claimed): a callback that throws means rolled back, never
\* committed, the same error rethrown; a callback that returns means
\* committed exactly once and its result returned; never both.
C13_TransactionAsClaimed ==
  TxEnded =>
    /\ tx.cb = "threw"
         => tx.rollbacks = 1 /\ tx.commitCalls = 0 /\ tx.thrown = {"E_cb"}
    /\ tx.cb = "returned"
         => tx.commits = 1 /\ tx.returned = {tx.cbResult} /\ tx.thrown = {}
    /\ ~(tx.commits > 0 /\ tx.rollbacks > 0)

\* C13 (amended): if the callback throws, commit is never called, rollback
\* is called once and the callback's error is rethrown, unless the rollback
\* itself fails, whose error is then thrown instead. If the callback
\* returns, commit is called exactly once; if it succeeds the callback's
\* result is returned and rollback is never called; if it fails, rollback is
\* called once, nothing is returned and the commit's error is thrown (the
\* rollback's, if that fails too). A transaction is never both committed and
\* rolled back, whatever it wrote reaches the table only by its commit, and
\* its connection is released exactly once.
C13_TransactionOutcome ==
  /\ [](TxEnded =>
        /\ tx.released = 1 /\ tx.acquired = 1
        /\ tx.commits <= 1 /\ ~(tx.commits > 0 /\ tx.rollbacks > 0)
        /\ tx.cb = "threw"
             => /\ tx.commitCalls = 0 /\ tx.rollbackCalls = 1
                /\ tx.returned = {}
                /\ tx.thrown = IF tx.rollbacks = 1 THEN {"E_cb"}
                               ELSE {"E_rollback"}
        /\ tx.cb = "returned"
             => /\ tx.commitCalls = 1
                /\ tx.commits = 1
                     => /\ tx.returned = {tx.cbResult} /\ tx.thrown = {}
                        /\ tx.rollbackCalls = 0
                /\ tx.commits = 0
                     => /\ tx.returned = {} /\ tx.rollbackCalls = 1
                        /\ tx.thrown = IF tx.rollbacks = 1 THEN {"E_commit"}
                                       ELSE {"E_rollback"})
  /\ [][customers' # customers
          => TxCommit(TRUE) /\ customers' = customers \cup tx.pending]_vars

\* a callback wrote a row and returned, the commit failed and the rollback
\* went through: the commit's error was thrown and the row is not there
C13_Witness ==
  /\ TxEnded
  /\ tx.cb = "returned"
  /\ tx.commitCalls = 1 /\ tx.commits = 0 /\ tx.rollbacks = 1
  /\ tx.thrown = {"E_commit"}
  /\ nextCustomerId = 2
  /\ customers = {}

\* C14: a database failure while a request is handled surfaces as a generic
\* server error (5xx), for login and for the /auth/me profile lookup as for
\* every other operation; it is never reported as a domain error such as
\* 401 'Invalid credentials'.
C14_DbFailureIsServerError ==
  [][/\ \A u \in Usernames, p \in Passwords :
          (req'.op = "login" /\ Login(u, p, FALSE)) => resp'.status >= 500
     /\ (/\ req'.op = "request"
         /\ req'.route = "GET /auth/me"
         /\ JwtAuthGuard(req'.hdr, now) # {}
         /\ HandleRequest(req'.hdr, req'.route, FALSE))
          => resp'.status >= 500]_vars

UsernameConflict ==
  [NoResp EXCEPT !.status = 409, !.error = "ConflictException",
                 !.message = "Username already exists"]

C16_DuplicateEmailConflict ==
  [][/\ (/\ req'.op = "customers.create"
         /\ \E dto \in req'.dto :
              /\ CustomerCreate(dto, 0)
              /\ \E r \in customers : r.email \in dto.email)
          => resp'.status = 409 /\ customers' = customers
     /\ (/\ req'.op = "customers.update"
         /\ \E dto \in req'.dto :
              /\ CustomerUpdate(req'.id, dto, 0)
              /\ \E r \in customers : r.id = req'.id
              /\ \E o \in customers : o.id # req'.id /\ o.email \in dto.email)
          => resp'.status = 409 /\ customers' = customers]_vars

CustomerMissing(id) == \A r \in customers : r.id # id
UserMissing(id) == \A r \in users : r.id # id

\* the step is findById, update or delete of a customer id that has no row
CustomerStepOnMissing ==
  /\ CustomerMissing(req'.id)
  /\ \/ req'.op = "customers.findById" /\ CustomerGet(req'.id, 0)
     \/ req'.op = "customers.delete" /\ CustomerDelete(req'.id, 0)
     \/ /\ req'.op = "customers.update"
        /\ \E dto \in req'.dto : CustomerUpdate(req'.id, dto, 0)

\* the step is findById or update of a user id that has no row
UserReadOrUpdateOnMissing ==
  /\ UserMissing(req'.id)
  /\ \/ req'.op = "users.findById" /\ UserGet(req'.id, 0)
     \/ /\ req'.op = "users.update"
        /\ \E dto \in req'.dto : UserUpdate(req'.id, dto, 1, 0)

\* the step is delete of a user id that has no row
UserDeleteOnMissing ==
  /\ UserMissing(req'.id)
  /\ req'.op = "users.delete"
  /\ UserDelete(req'.id, req'.currentUserId, TRUE)

NotFoundNaming(entity, id) ==
  /\ resp'.status = 404
  /\ resp'.error = "NotFoundException"
  /\ resp'.message = entity \o " with ID not found"
  /\ resp'.arg = id

\* C17 (as claimed): findById, update and delete of a customer or user id
\* that has no row fail with NotFoundException naming the entity and the id
\* and change no row, also after a successful delete of that id.
C17_MissingIdNotFound ==
  [][/\ CustomerStepOnMissing
          => NotFoundNaming("Customer", req'.id) /\ customers' = customers
     /\ (UserReadOrUpdateOnMissing \/ UserDeleteOnMissing)
          => NotFoundNaming("User", req'.id) /\ users' = users]_vars

\* C17 (amended): as claimed for the customers and for findById and update
\* of a user; UserService.delete(id, currentUserId) of an id that has no row
\* fails with NotFoundException only when id differs from currentUserId:
\* with id = currentUserId the self-deletion check comes first and the call
\* fails with ConflictException. No row changes in either case.
C17_MissingIdNotFoundUnlessSelf ==
  [][/\ CustomerStepOnMissing
          => NotFoundNaming("Customer", req'.id) /\ customers' = customers
     /\ UserReadOrUpdateOnMissing
          => NotFoundNaming("User", req'.id) /\ users' = users
     /\ UserDeleteOnMissing
          => /\ users' = users
             /\ req'.id # req'.currentUserId => NotFoundNaming("User", req'.id)
             /\ req'.id = req'.currentUserId
                  => resp'.status = 409 /\ resp'.error = "ConflictException"
     ]_vars

\* a customer that was created and deleted is asked for again: 404, while
\* a user that was created and deleted is gone from the users table too
C17_Witness ==
  /\ req.op \in {"customers.findById", "customers.update", "customers.delete"}
  /\ resp.status = 404
  /\ resp.arg = req.id
  /\ req.id < nextCustomerId
  /\ CustomerMissing(req.id)
  /\ nextId = 3
  /\ UserMissing(2)

\* the stored password is the bcrypt digest of some plaintext under its salt
IsHash(stored) ==
  /\ stored.alg = "bcrypt"
  /\ \E plain \in Passwords : stored = BcryptHash(plain, stored.salt)

\* C18: in every reachable state the password column of every users row
\* holds a one-way hash made from the plaintext, whether the row was written
\* by seedDefaultAdmin, by UserService.create or by UserService.update; a
\* step that writes a password stores the hash of the plaintext it was given.
C18_PasswordsStoredHashed ==
  /\ [](\A u \in users : IsHash(u.password))
  /\ [][\A u \in users' :
          (\A o \in users : o.id = u.id => o.password # u.password)
          => \E salt \in Salts :
               u.password =
                 BcryptHash(IF req'.op = "users.create" THEN req'.password
                            ELSE IF req'.op = "users.update"
                            THEN The(The(req'.dto).password)
                            ELSE "Admin@123", salt)]_vars

\* an update changed the password of the seeded admin: the row holds the
\* hash of the new plaintext, which verifies, and the old one no longer does
C18_Witness ==
  /\ req.op = "users.update"
  /\ resp.status = 200
  /\ \E dto \in req.dto : dto.password = {"secret"}
  /\ \E u \in users :
       /\ u.id = req.id
       /\ u.username = "admin"
       /\ u.password = BcryptHash("secret", 2)
       /\ BcryptCompare("secret", u.password)
       /\ ~BcryptCompare("Admin@123", u.password)

\* the fields of a user as callers see it, and of a signed token
UserFields == {"id", "username", "role"}
TokenFields == {"sub", "username", "role", "iat", "exp", "sig"}

\* nothing in the response has a password field: the user, the rows of a
\* page, the token
NoPasswordReturned ==
  /\ \A u \in resp.user : DOMAIN u = UserFields
  /\ \A b \in resp.body : \A r \in b.data : DOMAIN r = UserFields
  /\ \A t \in resp.token :
       DOMAIN t = TokenFields /\ DOMAIN t.sig.over = TokenFields \ {"sig"}

\* the request just recorded is the one recorded before it
SameRequest == req' = req /\ req'.op # "none"

IsLogin == req'.op = "login"
IsRead ==
  \/ req'.op \in {"users.findAll", "users.findById"}
  \/ req'.op = "request" /\ req'.route = "GET /auth/me"

\* the password of the login verifies against the row now stored
LoginVerifies ==
  \E u \in users : u.username = req'.username /\ Verifies(req'.password, u)

\* C19 as stated: no value returned by login, getProfile or UserService
\* findAll/findById/create/update contains the password or its hash, and the
\* same login, getProfile, findAll or findById on two databases that differ
\* only in stored password hashes gives identical results.
C19_NoHashInResults ==
  /\ []NoPasswordReturned
  /\ [][(SameRequest /\ (IsLogin \/ IsRead)) => resp' = resp]_vars

\* C19, amended: no value returned by login, getProfile or UserService
\* findAll/findById/create/update contains the password or its hash; the same
\* getProfile, findAll or findById on two databases that differ only in
\* stored password hashes gives identical results, and so does the same
\* login whenever the supplied password verifies against both stored hashes
\* or against neither.
C19_NoHashInResultsButLoginOutcome ==
  /\ []NoPasswordReturned
  /\ [][(SameRequest /\ IsRead) => resp' = resp]_vars
  /\ [][(SameRequest /\ IsLogin /\ ((resp.status = 200) <=> LoginVerifies))
        => resp' = resp]_vars

\* a login answered on a database whose stored hash of that user is not the
\* one any write of this run's requests made: the user comes back without it
C19_Witness ==
  /\ req.op = "login"
  /\ resp.status = 200
  /\ resp.token # {}
  /\ \E u \in users :
       /\ u.username = req.username
       /\ u.password = BcryptHash(req.password, 2)
       /\ resp.user = {PublicUser(u)}
       /\ DOMAIN PublicUser(u) = UserFields

\* C20: after any sequence of CustomerService.create and update calls no
\* customer row has company or address equal to the empty string; a create
\* with the field omitted or empty, and an update with the field empty,
\* store NULL in that column.
C20_NoEmptyCompanyOrAddress ==
  /\ [](\A r \in customers : r.company # {""} /\ r.address # {""})
  /\ [][\A dto \in req'.dto :
          /\ (req'.op = "customers.create" /\ customers' # customers)
             => \A r \in customers' \ customers :
                  /\ (dto.company \in {{}, {""}} => r.company = {})
                  /\ (dto.address \in {{}, {""}} => r.address = {})
          /\ (req'.op = "customers.update" /\ customers' # customers)
             => \A r \in customers' \ customers :
                  /\ (dto.company = {""} => r.company = {})
                  /\ (dto.address = {""} => r.address = {})]_vars

\* an update with an empty company and a given address: the row holds NULL
\* as its company and the address as given, and that row is returned
C20_Witness ==
  /\ req.op = "customers.update"
  /\ resp.status = 200
  /\ \E dto \in req.dto :
       /\ dto.company = {""}
       /\ dto.address = {"1 Main St"}
  /\ \E r \in customers :
       /\ r.id = req.id
       /\ r.company = {}
       /\ r.address = {"1 Main St"}
       /\ resp.body = {r}

\* the signature of the token is the server's and the token has not expired
SignedAndFresh(tok, t) ==
  tok.sig = Hmac(JwtSecret, JwtPayloadOf(tok)) /\ t < tok.exp

Unauthenticated == Exception(401, "UnauthorizedException", "Unauthorized", 0)

\* the step answers a request to a protected operation
RequestAnswered == req'.op = "request" /\ now' = now

\* C21: token validity depends only on signature and expiry. Logout changes
\* no server state; a request is turned away by the authentication stage
\* exactly when it has no token, or its token is not signed by the server or
\* has expired, whatever became of the user since (logged out, deleted, role
\* changed); an accepted token acts with the role embedded at issuance.
C21_TokenValidBySignatureAndExpiry ==
  /\ [][(req'.op = "logout" /\ now' = now) =>
          UNCHANGED <<pc, boots, dirExists, dbVars, migVars, seed,
                      heldToken, svcVars>>]_vars
  /\ [][RequestAnswered =>
          /\ (resp' = Unauthenticated) <=>
               \A tok \in req'.hdr : ~SignedAndFresh(tok, now)
          /\ \A tok \in req'.hdr :
               (SignedAndFresh(tok, now) /\ req'.route # "GET /auth/me") =>
                 /\ resp'.handler = (tok.role \in RequiredRoles(req'.route))
                 /\ resp'.status = IF resp'.handler THEN 200 ELSE 403]_vars

\* an admin-only operation ran for a token issued to an admin whose row has
\* since been deleted
C21_Witness ==
  /\ req.op = "request"
  /\ req.route = "DELETE /customers/:id"
  /\ resp.status = 200
  /\ resp.handler
  /\ \E tok \in req.hdr :
       /\ SignedAndFresh(tok, now)
       /\ tok.role = "admin"
       /\ tok \in heldToken
       /\ \A u \in users : u.id # tok.sub

\* the rows stored under an id, as callers see them
StoredProfile(id) == {PublicUser(u) : u \in {r \in users : r.id = id}}

\* C22: getProfile(id), reached with an accepted token for that id, returns
\* the {id, username, role} stored for the id at the time of the call, not the
\* values embedded in the token; when no row has the id any more it fails
\* with UnauthorizedException('User not found').
C22_ProfileIsStoredRow ==
  [][(RequestAnswered /\ req'.route = "GET /auth/me") =>
       \A tok \in req'.hdr :
         SignedAndFresh(tok, now) =>
           IF StoredProfile(tok.sub) = {}
           THEN /\ resp'.status = 401
                /\ resp'.error = "UnauthorizedException"
                /\ resp'.message = "User not found"
                /\ resp'.user = {}
           ELSE /\ resp'.status = 200
                /\ resp'.user = StoredProfile(tok.sub)]_vars

\* a profile returned with the role now stored, which is not the role the
\* token was issued with
C22_Witness ==
  /\ req.op = "request"
  /\ req.route = "GET /auth/me"
  /\ resp.status = 200
  /\ \E tok \in req.hdr, u \in users :
       /\ SignedAndFresh(tok, now)
       /\ u.id = tok.sub
       /\ u.role # tok.role
       /\ resp.user = {PublicUser(u)}

\* the configuration the claim calls complete: the signing secret and the
\* database credentials the pool is created with
ConfigurationComplete(env) ==
  "NODE_ENV" \in env /\ "JWT_SECRET" \in env /\ PoolSettingsPresent(env)

\* C23: the readiness check reports 'ready' exactly when the database is
\* reachable and the configuration is complete: not ready whenever the
\* signing secret or the database credentials are missing or the ping fails,
\* and never not ready when the database is reachable and the settings the
\* connection pool uses are all present.
C23_ReadyIffReachableAndConfigured ==
  req.op = "health.ready" =>
    \A q \in req.dto, r \in resp.body :
      (r.status = "ready") <=> (q.ping /\ ConfigurationComplete(q.env))

\* C24: when the migrations directory does not exist, runMigrations, once
\* the ledger table is ensured, executes no script, inserts no ledger row and
\* returns without raising, and startup goes on to seeding; the only error
\* it can raise is that of ensuring the ledger table.
C24_MissingDirectoryIsSkipped ==
  /\ [](~dirExists =>
          /\ pc \notin MigPcs
          /\ ledger = {}
          /\ run.executed = 0 /\ run.inserted = {}
          /\ \A k \in 1..NumScripts, s \in 1..StmtsPerScript :
               execCount[k][s] = 0
          /\ run.status \in {"none", "ok", "failed"}
          /\ (run.status = "failed" => run.cause = "ledger"))
  /\ [][(~dirExists /\ pc = "initialized" /\ pc' \notin {pc, "created"}) =>
          \/ run'.status = "ok" /\ pc' = "seeding"
          \/ run'.status = "failed" /\ run'.cause = "ledger"]_vars

\* a start without a migrations directory that seeded the admin and listens
C24_Witness ==
  /\ ~dirExists
  /\ pc = "listening"
  /\ run.status = "ok"
  /\ seed = "ok"
  /\ ledger = {}
  /\ AdminExists

\* the number of statements of the script with this key
StmtCount(k) == Len(Statements([key |-> k, ext |-> "sql"]))

RECURSIVE SumStmts(_)
SumStmts(S) ==
  IF S = {} THEN 0
  ELSE LET k == CHOOSE x \in S : TRUE IN StmtCount(k) + SumStmts(S \ {k})

\* the statements this run has executed of the script it has not recorded
InProgress ==
  IF pc = "mig_stmt" THEN stmt - 1
  ELSE IF pc = "mig_record" THEN StmtCount(migrationFiles[cur].key)
  ELSE IF run.status = "failed" /\ run.cause = "stmt" THEN run.failedAt[2] - 1
  ELSE IF run.status = "failed" /\ run.cause = "record"
  THEN StmtCount(run.failedAt[1])
  ELSE 0

\* C25: ledger soundness. A filename is in the migrations ledger only if
\* every statement of that script was executed successfully, in order, within
\* one single run, before the ledger row was inserted: the row is inserted by
\* the run that has just executed the script's last statement, a run executes
\* the statements of a script one after the other from the first, and what a
\* run has executed is exactly the scripts it recorded plus the one it is at.
\* A filename that has its row is never inserted again.
C25_LedgerSound ==
  /\ [](\A k \in ledger : \A s \in 1..StmtCount(k) : execCount[k][s] >= 1)
  /\ [](run.executed = SumStmts(run.inserted) + InProgress)
  /\ [](run.inserted \subseteq ledger)
  /\ [][ledger' # ledger =>
          LET k == migrationFiles[cur].key IN
          /\ pc = "mig_record"
          /\ k \notin ledger
          /\ ledger' = ledger \cup {k}
          /\ run'.inserted = run.inserted \cup {k}
          /\ stmt = StmtCount(k)
          /\ run.executed >= StmtCount(k)]_vars
  /\ [][\A k \in 1..NumScripts, s \in 1..StmtsPerScript :
          execCount'[k][s] # execCount[k][s] =>
            /\ pc = "mig_stmt"
            /\ k = migrationFiles[cur].key
            /\ s = stmt
            /\ \/ pc' = "mig_stmt" /\ stmt' = s + 1
               \/ pc' = "mig_record" /\ s = StmtCount(k)]_vars

\* the last script was recorded by a second run that executed it whole,
\* after a first run had executed its first statement and failed
C25_Witness ==
  /\ boots = 2
  /\ prevRun = "failed"
  /\ NumScripts \in run.inserted
  /\ NumScripts \in ledger
  /\ execCount[NumScripts][1] = 2
  /\ execCount[NumScripts][StmtsPerScript] = 1

\* C26: every connection that transaction or checkConnection checks out of
\* the pool has been released when the operation has returned or thrown, on
\* every path, including when beginTransaction, ping, commit or rollback
\* fails.
C26_ConnectionsReleased ==
  tx.state = "done" => tx.released = tx.acquired

\* the caller of the user-management call just made is a stored admin: the
\* acting user of a delete, some admin for a create or an update
CallerIsAdmin ==
  IF req'.op = "users.delete"
  THEN \E u \in Admins(users) : u.id = req'.currentUserId
  ELSE Admins(users) # {}

\* C27: from a state with at least one admin, no UserService.create, update
\* or delete call made by an admin (a delete passing the caller's own id as
\* currentUserId) leaves the users table without a row of role 'admin'.
C27_AnAdminRemains ==
  [][(req'.op \in {"users.create", "users.update", "users.delete"}
        /\ Admins(users) # {} /\ CallerIsAdmin)
       => Admins(users') # {}]_vars

\* C28: under every interleaving of concurrent create and renaming update
\* calls that target the same username, at most one row ends with that
\* username, and every call that does not store it fails with
\* ConflictException('Username already exists'), never with a raw database
\* error (a rename of an id that has no row fails with NotFoundException).
C28_RacesEndInConflict ==
  /\ \A x \in Usernames : Cardinality(RowsNamed(x)) <= 1
  /\ \A c \in Clients :
       calls[c].at = "done" =>
         \/ calls[c].result.status \in {200, 201}
         \/ calls[c].result = Conflict
         \/ calls[c].op = "users.update" /\ calls[c].result.status = 404

Min(a, b) == IF a <= b THEN a ELSE b
Max(a, b) == IF a >= b THEN a ELSE b

\* C29: every findAll result is consistent in itself, also when creates and
\* deletes run while it is in flight: the number of rows in data is
\* min(limit, max(0, total - (page - 1) * limit)) for the total reported in
\* the same response.
C29_ListingConsistent ==
  \A c \in Clients :
    (calls[c].at = "done"
       /\ calls[c].op \in {"customers.findAll", "users.findAll"}) =>
      \A r \in calls[c].result.body :
        Cardinality(r.data) =
          Min(r.limit, Max(0, r.total - (r.page - 1) * r.limit))

\* the step is a successful update(id, {password: p}) / delete(id, other)
PasswordUpdated ==
  /\ req'.op = "users.update" /\ resp'.status = 200 /\ users' # users
  /\ \E dto \in req'.dto : dto.password # {}

UserDeleted ==
  req'.op = "users.delete" /\ resp'.status = 204 /\ users' # users

\* the row the call is about, before and after it
RowBefore == CHOOSE r \in users : r.id = req'.id
RowAfter == CHOOSE r \in users' : r.id = req'.id
NewPassword == The(The(req'.dto).password)

\* what validateUser answers once the step is done
CanLogInAfter(username, password) ==
  ValidateUser(username, password, TRUE)' # {}

\* a login made right after a successful update that carried a password
LoginAfterPasswordUpdate ==
  /\ req.op = "users.update" /\ resp.status = 200
  /\ \E dto \in req.dto : dto.password # {}
  /\ req'.op = "login"

\* C30 (as claimed): after update(id, {password: p}) succeeds, login with
\* the user's username and p succeeds and login with the previous password
\* fails; after delete(id, other) succeeds, login with the deleted user's
\* username and password fails.
C30_LoginFollowsPasswordAsClaimed ==
  /\ [][PasswordUpdated =>
          \A name \in Usernames, q \in Passwords :
            name = RowAfter.username =>
              /\ q = NewPassword => CanLogInAfter(name, q)
              /\ Verifies(q, RowBefore) => ~CanLogInAfter(name, q)]_vars
  /\ [][UserDeleted =>
          \A name \in Usernames, q \in Passwords :
            name = RowBefore.username => ~CanLogInAfter(name, q)]_vars

\* C30 (amended): after update(id, {password: p}) succeeds, login with the
\* user's username and p succeeds and login with any other password, so with
\* the previous one when it differs from p, fails with 'Invalid
\* credentials'; an update that sets the password the user already had
\* leaves it valid. After delete(id, other) succeeds, login with the deleted
\* user's username and any password fails with 'Invalid credentials'.
C30_LoginFollowsPassword ==
  /\ [][PasswordUpdated =>
          \A name \in Usernames, q \in Passwords :
            name = RowAfter.username =>
              (CanLogInAfter(name, q) <=> q = NewPassword)]_vars
  /\ [][UserDeleted =>
          \A name \in Usernames, q \in Passwords :
            name = RowBefore.username =>
              /\ RowsNamed(name)' = {}
              /\ ~CanLogInAfter(name, q)]_vars
  /\ [][LoginAfterPasswordUpdate =>
          \A r \in users :
            (r.id = req.id /\ r.username = req'.username) =>
              IF req'.password = The(The(req.dto).password)
              THEN resp'.status = 200 /\ resp'.user = {PublicUser(r)}
              ELSE resp' = InvalidCredentials]_vars
  /\ [][(req'.op = "login" /\ RowsNamed(req'.username) = {})
          => resp' = InvalidCredentials]_vars

\* a login with the previous password, refused right after an update that
\* gave the user another one
C30_Witness ==
  /\ req.op = "login"
  /\ req.password = "Admin@123"
  /\ resp = InvalidCredentials
  /\ \E u \in users :
       /\ u.username = req.username
       /\ Verifies("secret", u)
       /\ u.password.salt = 2

====
